---- MODULE Spec2Model ----
(***************************************************************************)
(* Vector-storage providers of mastra-finance-home-ai: the in-memory       *)
(* MockVectorProvider, the SQLiteProvider over database/sqlite, the        *)
(* binding-based CloudflareVectorizeProvider, and the factories that       *)
(* select between them.                                                     *)
(*                                                                         *)
(* Numbers.  A similarity score dot / (sqrt(normA) * sqrt(normB)) is kept  *)
(* as the pair [num |-> dot, den |-> normA * normB], read num / sqrt(den). *)
(* den = 0 is the IEEE value 0/0 = NaN.  Scores are compared by cross      *)
(* multiplication of signed squares, which orders them as the quotients    *)
(* are ordered.  A literal such as 0.92 is [num |-> 92, den |-> 10000].    *)
(*                                                                         *)
(* An optional property of a JavaScript object is a set: empty when the     *)
(* property is undefined, a singleton when it holds a value.               *)
(***************************************************************************)
EXTENDS Integers, Sequences, FiniteSets, TLC

\* ------------------------------------------------------------------ bounds

\* Longest batch handed to one insert call.
MaxBatch == 1

\* Most invocations of a Vectorize binding in one run.
MaxCalls == 2

\* Latest reading of the wall clock (Date / CURRENT_TIMESTAMP); readings
\* never go back.
MaxClock == 2

\* ------------------------------------------------------------------ inputs

Ids == {"a", "b"}

\* Embedding vectors callers hand to insert: two dimensions, a zero vector
\* and one vector of another dimension.
Vecs == {<<1, 0>>, <<0, 1>>, <<0, 0>>, <<1>>}

\* Query vectors.
Queries == {<<1, 0>>, <<1, 1>>, <<1>>, <<>>}

\* VectorMetadata (base.ts): the fields the providers read.
\* Amounts are in hundredths (942.55 is 94255).  createdAt as a caller
\* supplies it is a reading taken before the run: 0, the clock starting at 1.
Metas ==
  { [transactionType |-> "regular", category |-> "food", amount |-> 1000,
     createdAt |-> 0],
    [transactionType |-> "monthly", category |-> "fuel", amount |-> 2000,
     createdAt |-> 0] }

\* VectorRecord (base.ts).
VectorRecord == [id : Ids, values : Vecs, metadata : Metas]

\* Every sequence over S of length 1..n.
SeqsUpTo(S, n) == UNION { [1..k -> S] : k \in 1..n }

Batches == SeqsUpTo(VectorRecord, MaxBatch)

\* An optional property is the set of its values: {} when absent, {v} when
\* present.
Absent == {}

Maybe(S) == {Absent} \cup { {v} : v \in S }

Present(o) == o # Absent

Value(o) == CHOOSE v \in o : TRUE

NoFilters ==
  [transactionType |-> Absent, category |-> Absent, minAmount |-> Absent,
   maxAmount |-> Absent]

\* options.filters (VectorSearchOptions, base.ts): each constraint optional;
\* here no constraint, one constraint, or both bounds of the amount.
Filters ==
  {NoFilters}
    \cup { [NoFilters EXCEPT !.transactionType = {v}] : v \in {"monthly"} }
    \cup { [NoFilters EXCEPT !.category = {v}] : v \in {"fuel", ""} }
    \cup { [NoFilters EXCEPT !.minAmount = {v}] : v \in {1500} }
    \cup { [NoFilters EXCEPT !.maxAmount = {v}] : v \in {1500} }
    \cup { [NoFilters EXCEPT !.minAmount = {500}, !.maxAmount = {1500}] }

TopKs == {1, 2}

\* VectorSearchOptions as the providers destructure it.  The interface of
\* base.ts declares no minScore, so callers typed against it leave it undefined.
Options == [topK : Maybe(TopKs), minScore : {Absent}, filters : Maybe(Filters)]

NoOptions == [topK |-> Absent, minScore |-> Absent, filters |-> Absent]

\* ------------------------------------------------------------------ state

VARIABLES
  now,                    \* the wall clock, as Date and CURRENT_TIMESTAMP read it
  env,                    \* the process environment and the binding handed to the factory
  provider,               \* the provider instance the calls go to
  vectors,                \* MockVectorProvider.vectors: a Map, in insertion order
  englishEmbeddings,      \* SQLiteProvider.englishEmbeddings
  transactions,           \* table transactions of database/sqlite, in rowid order
  transaction_embeddings, \* table transaction_embeddings, in rowid order
  calls,                  \* invocations of the Vectorize binding so far
  lastOp                  \* the last call: its arguments and its outcome

vars == <<now, env, provider, vectors, englishEmbeddings, transactions,
          transaction_embeddings, calls, lastOp>>

\* ----------------------------------------------------------------- numbers

Min(a, b) == IF a <= b THEN a ELSE b

\* x * |x|: monotone in x, so it orders what sqrt would order.
SSq(x) == IF x >= 0 THEN x * x ELSE -(x * x)

Num(n) == [num |-> n, den |-> 1]

IsNaN(s) == s.den = 0

\* a >= b on numbers; false when either is NaN.
GE(a, b) == ~IsNaN(a) /\ ~IsNaN(b) /\ SSq(a.num) * b.den >= SSq(b.num) * a.den

\* The sign of a - b; NaN gives 0, as a NaN comparator result counts for +0.
SignOfDifference(a, b) ==
  IF IsNaN(a) \/ IsNaN(b) THEN 0
  ELSE IF SSq(a.num) * b.den > SSq(b.num) * a.den THEN 1
  ELSE IF SSq(a.num) * b.den < SSq(b.num) * a.den THEN -1
  ELSE 0

RECURSIVE DotProduct(_, _, _)
\* sum of a[i] * b[i] for i in 1..n
DotProduct(a, b, n) == IF n = 0 THEN 0 ELSE DotProduct(a, b, n - 1) + a[n] * b[n]

\* seq.slice(0, n)
Slice(seq, n) == SubSeq(seq, 1, Min(n, Len(seq)))

\* ------------------------------------------------------- Array.prototype.sort

\* The comparator of an ascending sort, (a, b) => a.score - b.score.
ByScoreAscending(a, b) == SignOfDifference(a.score, b.score)

\* matches.sort((a, b) => b.score - a.score): the comparator.
ByScoreDescending(a, b) == SignOfDifference(b.score, a.score)

\* x put into the sorted sequence s behind every element it does not precede.
SortedInsert(s, x) ==
  LET before == { i \in 1..Len(s) : ByScoreDescending(x, s[i]) < 0 }
      at == IF before = {} THEN Len(s) + 1
            ELSE CHOOSE i \in before : \A j \in before : i <= j
  IN SubSeq(s, 1, at - 1) \o <<x>> \o SubSeq(s, at, Len(s))

RECURSIVE SortPrefix(_, _)
SortPrefix(seq, n) == IF n = 0 THEN <<>> ELSE SortedInsert(SortPrefix(seq, n - 1), seq[n])

\* Array.prototype.sort with ByScoreDescending: stable (ECMAScript 2019).
SortByScore(seq) == SortPrefix(seq, Len(seq))

\* -------------------------------------------------------- MockVectorProvider

DefaultTopK == 5

DefaultMinScore == [num |-> 7, den |-> 100]

\* const { topK = 5, minScore = 0.7, filters } = options
TopKOf(options) == IF Present(options.topK) THEN Value(options.topK) ELSE DefaultTopK

MinScoreOf(options) ==
  IF Present(options.minScore) THEN Num(Value(options.minScore)) ELSE DefaultMinScore

\* A string in a condition: undefined and "" are both falsy.
Truthy(o) == Present(o) /\ Value(o) # ""

\* The position of key id in the Map, 0 when it is not a key.
IndexOf(map, id) ==
  IF \E i \in 1..Len(map) : map[i].id = id
  THEN CHOOSE i \in 1..Len(map) : map[i].id = id
  ELSE 0

\* Map.prototype.set: a new key goes last, an existing key keeps its place.
\* A store that is replaced by the record written, not updated with it.
MapSetAlone(map, rec) == <<rec>>

MapSet(map, rec) ==
  IF IndexOf(map, rec.id) = 0 THEN Append(map, rec)
  ELSE [map EXCEPT ![IndexOf(map, rec.id)] = rec]

\* { ...vector, metadata: { ...vector.metadata, createdAt: new Date() } }
MockStamped(vector, t) ==
  [vector EXCEPT !.metadata = [vector.metadata EXCEPT !.createdAt = t]]

\* One Map for every instance of the class, as a static field would be.
SharedMockStore(held) == held

\* private vectors = new Map<string, VectorRecord>(): the store a new
\* MockVectorProvider starts with, whatever an earlier instance holds.
NewMockStore(held) == <<>>

RECURSIVE MockSetAll(_, _, _, _)
\* the loop of MockVectorProvider.insert over the first n records
MockSetAll(map, batch, n, t) ==
  IF n = 0 THEN map
  ELSE MapSet(MockSetAll(map, batch, n - 1, t), MockStamped(batch[n], t))

MockCosineSimilarity(a, b) ==
  IF Len(a) # Len(b) THEN Num(0)
  ELSE [num |-> DotProduct(a, b, Len(a)),
        den |-> DotProduct(a, a, Len(a)) * DotProduct(b, b, Len(b))]

matchesFilter(metadata, filters) ==
  IF Truthy(filters.transactionType)
       /\ metadata.transactionType # Value(filters.transactionType) THEN FALSE
  ELSE IF Truthy(filters.category)
       /\ metadata.category # Value(filters.category) THEN FALSE
  ELSE IF Present(filters.minAmount)
       /\ metadata.amount < Value(filters.minAmount) THEN FALSE
  ELSE IF Present(filters.maxAmount)
       /\ metadata.amount > Value(filters.maxAmount) THEN FALSE
  ELSE TRUE

\* The canned entries of getMockResults, createdAt read from the clock.
mockResults(t) ==
  << [id |-> "mock_transaction_1", score |-> [num |-> 92, den |-> 10000],
      metadata |-> [transactionType |-> "monthly", category |-> "mandatory_payments",
                    amount |-> 94255, createdAt |-> t]],
     [id |-> "mock_transaction_2", score |-> [num |-> 85, den |-> 10000],
      metadata |-> [transactionType |-> "regular", category |-> "food_beverage",
                    amount |-> 15680, createdAt |-> t]],
     [id |-> "mock_transaction_3", score |-> [num |-> 78, den |-> 10000],
      metadata |-> [transactionType |-> "regular", category |-> "fuel",
                    amount |-> 28050, createdAt |-> t]] >>

getMockResults(options, t) ==
  LET filters == options.filters
      Keep(result) ==
        IF Present(filters) /\ Truthy(Value(filters).transactionType)
             /\ result.metadata.transactionType # Value(Value(filters).transactionType)
          THEN FALSE
        ELSE IF Present(filters) /\ Truthy(Value(filters).category)
             /\ result.metadata.category # Value(Value(filters).category)
          THEN FALSE
        ELSE IF Present(filters) /\ Present(Value(filters).minAmount)
             /\ result.metadata.amount < Value(Value(filters).minAmount)
          THEN FALSE
        ELSE IF Present(filters) /\ Present(Value(filters).maxAmount)
             /\ result.metadata.amount > Value(Value(filters).maxAmount)
          THEN FALSE
        ELSE GE(result.score, MinScoreOf(options))
  IN Slice(SelectSeq(mockResults(t), Keep), TopKOf(options))

\* The matches MockVectorProvider.search collects from the Map, before the sort.
MockMatches(map, queryVector, options) ==
  LET Scored(i) == [id |-> map[i].id,
                    score |-> MockCosineSimilarity(queryVector, map[i].values),
                    metadata |-> map[i].metadata]
      all == [i \in 1..Len(map) |-> Scored(i)]
      Keep(m) ==
        /\ ~(Present(options.filters) /\ ~matchesFilter(m.metadata, Value(options.filters)))
        /\ GE(m.score, MinScoreOf(options))
  IN SelectSeq(all, Keep)

\* The ids in the order MockVectorProvider.search goes through them: the
\* entries of the Map, or the canned entries when the Map is empty.
MockScan(map, t) ==
  IF Len(map) = 0 THEN [i \in 1..Len(mockResults(t)) |-> mockResults(t)[i].id]
  ELSE [i \in 1..Len(map) |-> map[i].id]

\* A search that answers from the canned entries whatever the store holds.
MockSearchCanned(map, queryVector, options, t) == getMockResults(options, t)

MockSearch(map, queryVector, options, t) ==
  IF Len(map) = 0 THEN getMockResults(options, t)
  ELSE Slice(SortByScore(MockMatches(map, queryVector, options)), TopKOf(options))

\* ------------------------------------------------------------ database/sqlite

\* The numbers JSON texts of the model hold, and their texts.
JSONNumbers == -1..2

NumberText == [n \in JSONNumbers |-> ToString(n)]

\* JSON.stringify of a number[]: the text, token by token.
RECURSIVE JSONElements(_, _)
JSONElements(v, n) ==
  IF n = 0 THEN <<>>
  ELSE IF n = 1 THEN <<NumberText[v[1]]>>
  ELSE JSONElements(v, n - 1) \o <<",", NumberText[v[n]]>>

JSONstringify(v) == <<"[">> \o JSONElements(v, Len(v)) \o <<"]">>

IsNumberToken(tok) == \E n \in JSONNumbers : NumberText[n] = tok

NumberOf(tok) == CHOOSE n \in JSONNumbers : NumberText[n] = tok

\* JSON.parse of an array text: {the array}, or Absent where JSON.parse throws.
JSONparse(text) ==
  LET n == Len(text)
      inner == SubSeq(text, 2, n - 1)
      wellFormed ==
        /\ n >= 2 /\ text[1] = "[" /\ text[n] = "]"
        /\ \/ Len(inner) = 0
           \/ /\ Len(inner) % 2 = 1
              /\ \A i \in 1..Len(inner) :
                   IF i % 2 = 1 THEN IsNumberToken(inner[i]) ELSE inner[i] = ","
  IN IF wellFormed
     THEN {[i \in 1..((Len(inner) + 1) \div 2) |-> NumberOf(inner[2 * i - 1])]}
     ELSE Absent

\* The statements insertTransaction runs, in order.  The engine can refuse any
\* of them (SQLITE_FULL, SQLITE_IOERR, SQLITE_BUSY): Faults names the statement
\* it refuses in one call, "none" when it refuses none.
Statements == <<"insertTx", "hebrew", "english">>

Faults == {"none", "insertTx", "hebrew", "english"}

\* insertTx.run(...): a second row under a PRIMARY KEY is refused.
insertTx_run(db, data, t) ==
  IF \E i \in 1..Len(db.transactions) : db.transactions[i].id = data.id
  THEN [db EXCEPT !.ok = FALSE]
  ELSE [db EXCEPT !.transactions = Append(@,
          [id |-> data.id, transaction_type |-> data.transactionType,
           category |-> data.category, amount |-> data.amount, created_at |-> t])]

\* insertEmbedding.run(data.id, type, JSON.stringify(embedding))
insertEmbedding_run(db, id, type, embedding) ==
  [db EXCEPT !.transaction_embeddings = Append(@,
     [transaction_id |-> id, embedding_type |-> type,
      embedding_vector |-> JSONstringify(embedding)])]

\* One statement of the transaction function; a statement after a throw is
\* never reached.
RunStatement(db, data, t, statement, fault) ==
  IF ~db.ok THEN db
  ELSE IF fault = statement THEN [db EXCEPT !.ok = FALSE]
  ELSE IF statement = "insertTx" THEN insertTx_run(db, data, t)
  ELSE IF statement = "hebrew"
       THEN insertEmbedding_run(db, data.id, "hebrew", data.hebrewEmbedding)
  ELSE insertEmbedding_run(db, data.id, "english", data.englishEmbedding)

\* A wrapper that runs the function and keeps whatever it wrote.
db_transaction_noRollback(before, after) == after

\* db.transaction(fn)(): COMMIT when fn returns, ROLLBACK when it throws.
db_transaction(before, after) ==
  IF after.ok THEN after ELSE [before EXCEPT !.ok = FALSE]

\* insertTransaction(data) with the engine refusing the statement `fault`.
insertTransactionUnder(db, data, t, fault) ==
  LET s1 == RunStatement(db, data, t, Statements[1], fault)
      s2 == RunStatement(s1, data, t, Statements[2], fault)
      s3 == RunStatement(s2, data, t, Statements[3], fault)
  IN db_transaction(db, s3)

\* insertTransaction(data) on an engine that refuses nothing but a duplicate id.
insertTransaction(db, data, t) == insertTransactionUnder(db, data, t, "none")

\* embedding_vector of the rows of one type joined to a transaction; {Absent}
\* is the NULL a LEFT JOIN gives a transaction with no such row.
JoinedEmbeddings(embeddings, id, type) ==
  LET hit == { embeddings[i].embedding_vector : i \in
                 { j \in 1..Len(embeddings) : /\ embeddings[j].transaction_id = id
                                              /\ embeddings[j].embedding_type = type } }
  IN IF hit = {} THEN {Absent} ELSE { {e} : e \in hit }

\* The rows of getAllTransactions, before ORDER BY.
AllTransactionRows(txs, embeddings) ==
  UNION { { [id |-> txs[i].id, transaction_type |-> txs[i].transaction_type,
             category |-> txs[i].category, amount |-> txs[i].amount,
             created_at |-> txs[i].created_at, hebrew_embedding |-> he] :
            he \in JoinedEmbeddings(embeddings, txs[i].id, "hebrew") } :
          i \in 1..Len(txs) }

\* The rows of searchTransactionsByCategory, before ORDER BY: SELECT * FROM
\* transactions has no hebrew_embedding column.
CategoryRows(txs, category) ==
  { [id |-> txs[i].id, transaction_type |-> txs[i].transaction_type,
     category |-> txs[i].category, amount |-> txs[i].amount,
     created_at |-> txs[i].created_at, hebrew_embedding |-> Absent] :
    i \in { j \in 1..Len(txs) : txs[j].category = category } }

\* ORDER BY created_at DESC: every order of the rows the clause allows (rows
\* of one timestamp come in an order SQL leaves open).
OrderByCreatedAtDesc(rows) ==
  { s \in [1..Cardinality(rows) -> rows] :
      /\ \A i, j \in DOMAIN s : i # j => s[i] # s[j]
      /\ \A i, j \in DOMAIN s : i < j => s[i].created_at >= s[j].created_at }

getAllTransactions(txs, embeddings) ==
  OrderByCreatedAtDesc(AllTransactionRows(txs, embeddings))

searchTransactionsByCategory(txs, category) ==
  OrderByCreatedAtDesc(CategoryRows(txs, category))

\* ------------------------------------------------------------- SQLiteProvider

\* parseFloat(metadata.amount) || 0 on a finite number.
ParseFloatOrZero(amount) == IF amount = 0 THEN 0 ELSE amount

\* An insert that catches the failure of a record inside the loop and goes on
\* with the records after it.
RECURSIVE SQLiteInsertSkipping(_, _, _, _, _)
SQLiteInsertSkipping(db, english, batch, n, t) ==
  IF n = 0 THEN [db |-> db, english |-> english]
  ELSE LET sofar == SQLiteInsertSkipping(db, english, batch, n - 1, t)
           vector == batch[n]
           after == insertTransaction([sofar.db EXCEPT !.ok = TRUE],
             [id |-> vector.id,
              transactionType |-> vector.metadata.transactionType,
              category |-> vector.metadata.category,
              amount |-> ParseFloatOrZero(vector.metadata.amount),
              hebrewEmbedding |-> vector.values,
              englishEmbedding |-> vector.values], t)
       IN [db |-> [after EXCEPT !.ok = after.ok /\ sofar.db.ok],
           english |-> sofar.english]

\* SQLiteProvider.insert: record by record, each in its own transaction; the
\* first failure ends the call.
RECURSIVE SQLiteInsertAll(_, _, _, _, _)
SQLiteInsertAll(db, english, batch, n, t) ==
  IF n = 0 THEN [db |-> db, english |-> english]
  ELSE LET sofar == SQLiteInsertAll(db, english, batch, n - 1, t)
           vector == batch[n]
           after == insertTransaction(sofar.db,
             [id |-> vector.id,
              transactionType |-> vector.metadata.transactionType,
              category |-> vector.metadata.category,
              amount |-> ParseFloatOrZero(vector.metadata.amount),
              hebrewEmbedding |-> vector.values,
              englishEmbedding |->
                IF Present(sofar.english[vector.id])
                THEN Value(sofar.english[vector.id]) ELSE vector.values], t)
       IN IF ~sofar.db.ok THEN sofar
          ELSE IF ~after.ok THEN [db |-> after, english |-> sofar.english]
          ELSE [db |-> after,
                english |-> [sofar.english EXCEPT ![vector.id] = Absent]]

SQLiteCosineSimilarity(vectorA, vectorB) ==
  LET dotProduct == DotProduct(vectorA, vectorB, Len(vectorA))
      normA == DotProduct(vectorA, vectorA, Len(vectorA))
      normB == DotProduct(vectorB, vectorB, Len(vectorB))
  IN IF normA = 0 \/ normB = 0 THEN Num(0)
     ELSE [num |-> dotProduct, den |-> normA * normB]

\* JSON.parse(row.hebrew_embedding || '[]')
ParsedHebrewEmbedding(row) ==
  IF Present(row.hebrew_embedding) /\ Value(row.hebrew_embedding) # <<>>
  THEN JSONparse(Value(row.hebrew_embedding))
  ELSE JSONparse(<<"[", "]">>)

\* A loop that gives the search up at the first row it cannot score.
SQLiteScoredOrNone(rows, queryVector) ==
  LET Usable(row) == /\ Present(ParsedHebrewEmbedding(row))
                     /\ Len(Value(ParsedHebrewEmbedding(row))) = Len(queryVector)
  IN IF \A i \in 1..Len(rows) : Usable(rows[i])
     THEN [i \in 1..Len(rows) |->
             [row |-> rows[i],
              score |-> SQLiteCosineSimilarity(queryVector,
                          Value(ParsedHebrewEmbedding(rows[i])))]]
     ELSE <<>>

\* The rows SQLiteProvider.search scores, in the order it reads them.
SQLiteScored(rows, queryVector) ==
  LET Usable(row) == /\ Present(ParsedHebrewEmbedding(row))
                     /\ Len(Value(ParsedHebrewEmbedding(row))) = Len(queryVector)
      Scored(row) == [row |-> row,
                      score |-> SQLiteCosineSimilarity(queryVector,
                                  Value(ParsedHebrewEmbedding(row)))]
      usable == SelectSeq(rows, Usable)
  IN [i \in 1..Len(usable) |-> Scored(usable[i])]

\* SQLiteProvider.search on the rows the query returned.
SQLiteSearch(rows, queryVector, options) ==
  LET topResults == Slice(SortByScore(SQLiteScored(rows, queryVector)), TopKOf(options))
  IN [i \in 1..Len(topResults) |->
        [id |-> topResults[i].row.id,
         score |-> topResults[i].score,
         metadata |-> [transactionType |-> topResults[i].row.transaction_type,
                       category |-> topResults[i].row.category,
                       amount |-> topResults[i].row.amount,
                       createdAt |-> topResults[i].row.created_at]]]

\* The rows SQLiteProvider.search asks the database for.
SQLiteRows(txs, embeddings, options) ==
  IF Present(options.filters) /\ Truthy(Value(options.filters).category)
  THEN searchTransactionsByCategory(txs, Value(Value(options.filters).category))
  ELSE getAllTransactions(txs, embeddings)

\* ------------------------------------------------ CloudflareVectorizeProvider

\* What a caller may hand over as the Vectorize binding: its typeof, and for
\* an object whether insert and query are missing, functions or other values.
\* rest marks the client object createVectorizeAPIClient builds.
NotAnObject(kind) ==
  [kind |-> kind, insert |-> "missing", query |-> "missing", rest |-> FALSE]

Bindings ==
  { NotAnObject(k) : k \in {"undefined", "null", "string", "function"} }
    \cup [kind : {"object"}, insert : {"missing", "function", "value"},
          query : {"missing", "function", "value"}, rest : {FALSE}]

\* isVectorizeBinding (types.ts)
isVectorizeBinding(obj) ==
  /\ obj.kind # "null"
  /\ obj.kind = "object"
  /\ obj.insert # "missing"
  /\ obj.query # "missing"
  /\ obj.insert = "function"
  /\ obj.query = "function"

\* What the binding's insert answers: a mutation id, or a rejection.
InsertReplies == { [ok |-> TRUE, mutationId |-> "mutation-1"],
                   [ok |-> FALSE, mutationId |-> ""] }

\* Matches a Vectorize index answers a query with.
ServerMatch(id, percent) ==
  [id |-> id, score |-> [num |-> percent, den |-> 10000],
   metadata |-> [transactionType |-> "regular", category |-> "fuel",
                 amount |-> 28050, createdAt |-> 0]]

QueryReplies ==
  { [ok |-> FALSE, matches |-> <<>>],
    [ok |-> TRUE, matches |-> <<>>],
    [ok |-> TRUE, matches |-> <<ServerMatch("x", 90)>>],
    [ok |-> TRUE, matches |-> <<ServerMatch("x", 90), ServerMatch("y", 50)>>] }

\* An insert that calls the binding first and looks at it afterwards.
CloudflareVectorizeInsertUnchecked(vectorDB, batch, reply) ==
  [invoked |-> TRUE,
   sent |-> << [i \in 1..Len(batch) |->
                 [id |-> batch[i].id, values |-> batch[i].values,
                  metadata |-> batch[i].metadata]] >>,
   ok |-> isVectorizeBinding(vectorDB) /\ reply.ok,
   error |-> IF ~isVectorizeBinding(vectorDB)
             THEN "Cloudflare Vectorize is not available"
             ELSE IF reply.ok THEN "" ELSE "rejected",
   mutationId |-> IF isVectorizeBinding(vectorDB) THEN reply.mutationId ELSE ""]

\* CloudflareVectorizeProvider.insert (cloudflare-vectorize.ts): whether the
\* binding was invoked, what it was sent, and the outcome.
CloudflareVectorizeInsert(vectorDB, batch, reply) ==
  IF ~isVectorizeBinding(vectorDB)
  THEN [invoked |-> FALSE, sent |-> <<>>, ok |-> FALSE,
        error |-> "Cloudflare Vectorize is not available", mutationId |-> ""]
  ELSE [invoked |-> TRUE,
        sent |-> << [i \in 1..Len(batch) |->
                      [id |-> batch[i].id, values |-> batch[i].values,
                       metadata |-> batch[i].metadata]] >>,
        ok |-> reply.ok,
        error |-> IF reply.ok THEN "" ELSE "rejected",
        mutationId |-> reply.mutationId]

\* The filter object CloudflareVectorizeProvider.search builds: per field
\* the operators it sets; Absent for undefined.
VectorizeFilter(options) ==
  LET filters == options.filters
      eq(o) == IF Present(filters) /\ Truthy(o) THEN {[eq |-> Value(o)]} ELSE Absent
      amount ==
        IF Present(filters)
             /\ (Present(Value(filters).minAmount) \/ Present(Value(filters).maxAmount))
        THEN {[gte |-> Value(filters).minAmount, lte |-> Value(filters).maxAmount]}
        ELSE Absent
      built ==
        [transactionType |-> IF Present(filters) THEN eq(Value(filters).transactionType)
                             ELSE Absent,
         category |-> IF Present(filters) THEN eq(Value(filters).category) ELSE Absent,
         amount |-> amount]
  IN IF built.transactionType = Absent /\ built.category = Absent /\ built.amount = Absent
     THEN Absent ELSE {built}

\* CloudflareVectorizeProvider.search (cloudflare-vectorize.ts)
CloudflareVectorizeSearch(vectorDB, queryVector, options, reply) ==
  IF ~isVectorizeBinding(vectorDB)
  THEN [invoked |-> FALSE, sent |-> <<>>, ok |-> FALSE,
        error |-> "Cloudflare Vectorize is not available", results |-> <<>>]
  ELSE LET Kept(match) == GE(match.score, MinScoreOf(options))
       IN [invoked |-> TRUE,
           sent |-> << [vector |-> queryVector, topK |-> TopKOf(options),
                        returnValues |-> FALSE, returnMetadata |-> "all",
                        filter |-> VectorizeFilter(options)] >>,
           ok |-> reply.ok,
           error |-> IF reply.ok THEN "" ELSE "rejected",
           results |-> IF reply.ok THEN SelectSeq(reply.matches, Kept) ELSE <<>>]

\* ------------------------------------------------------------------ factories

NoProvider == [name |-> "none", impl |-> "none", vectorDB |-> NotAnObject("undefined")]

\* new MockVectorProvider()
NewMockVectorProvider ==
  [name |-> "MockVector", impl |-> "mock", vectorDB |-> NotAnObject("undefined")]

\* new SQLiteProvider()
NewSQLiteProvider ==
  [name |-> "SQLite", impl |-> "sqlite", vectorDB |-> NotAnObject("undefined")]

\* new CloudflareVectorizeProvider(vectorDB) of cloudflare-vectorize.ts
NewCloudflareVectorizeProvider(vectorDB) ==
  [name |-> "CloudflareVectorize", impl |-> "cloudflare-vectorize",
   vectorDB |-> vectorDB]

\* new CloudflareVectorizeProvider(accountId, apiToken) of cloudflare.ts
NewCloudflareVector ==
  [name |-> "CloudflareVectorize", impl |-> "cloudflare",
   vectorDB |-> NotAnObject("undefined")]

Returned(p) == [threw |-> FALSE, provider |-> p]

Thrown == [threw |-> TRUE, provider |-> NoProvider]

\* A string of the environment in a condition: undefined and "" are falsy.
Configured(v) == Present(v) /\ Value(v) # ""

\* createVectorStorageProvider of the SQLite/Mock factory
createVectorStorageProvider_sqlite(e) ==
  IF e.vectorStorageMode = "sqlite" THEN Returned(NewSQLiteProvider)
  ELSE IF e.vectorStorageMode = "mock" THEN Returned(NewMockVectorProvider)
  ELSE Returned(NewSQLiteProvider)

\* A binding-based factory that takes mode cloudflare at its word and hands
\* out the Cloudflare provider whatever the binding is.
createVectorStorageProvider_forced(e) ==
  IF e.vectorStorageMode = "mock" THEN Returned(NewMockVectorProvider)
  ELSE IF e.vectorStorageMode = "cloudflare"
    THEN Returned(NewCloudflareVectorizeProvider(e.vectorDB))
  ELSE IF isVectorizeBinding(e.vectorDB)
    THEN Returned(NewCloudflareVectorizeProvider(e.vectorDB))
  ELSE Returned(NewMockVectorProvider)

\* createVectorStorageProvider(vectorDB) of the binding-based factory
createVectorStorageProvider_binding(e) ==
  IF e.vectorStorageMode = "mock" THEN Returned(NewMockVectorProvider)
  ELSE IF e.vectorStorageMode = "cloudflare"
    THEN IF isVectorizeBinding(e.vectorDB)
         THEN Returned(NewCloudflareVectorizeProvider(e.vectorDB))
         ELSE Returned(NewMockVectorProvider)
  ELSE IF isVectorizeBinding(e.vectorDB)
    THEN Returned(NewCloudflareVectorizeProvider(e.vectorDB))
  ELSE Returned(NewMockVectorProvider)

\* A Cloudflare-only factory that is content with one of the two credentials.
createVectorStorageProvider_eitherCredential(e) ==
  IF ~Configured(e.cloudflareAccountId) /\ ~Configured(e.cloudflareApiToken)
  THEN Thrown
  ELSE Returned(NewCloudflareVector)

\* createVectorStorageProvider of the Cloudflare-only factory
createVectorStorageProvider_cloudflare(e) ==
  IF ~Configured(e.cloudflareAccountId) \/ ~Configured(e.cloudflareApiToken)
  THEN Thrown
  ELSE Returned(NewCloudflareVector)

\* createVectorizeAPIClient: {the client}, or Absent for null.
createVectorizeAPIClient(e) ==
  IF ~Configured(e.cloudflareAccountId) \/ ~Configured(e.cloudflareApiToken)
  THEN Absent
  ELSE {[kind |-> "object", insert |-> "function", query |-> "function", rest |-> TRUE]}

\* createVectorStorageProvider(vectorDB) of the REST-client factory
createVectorStorageProvider_rest(e) ==
  IF e.vectorStorageMode = "mock" THEN Returned(NewMockVectorProvider)
  ELSE IF e.isProduction \/ e.vectorStorageMode = "cloudflare"
    THEN IF ~Present(createVectorizeAPIClient(e)) THEN Thrown
         ELSE Returned(NewCloudflareVectorizeProvider(Value(createVectorizeAPIClient(e))))
  ELSE IF Present(createVectorizeAPIClient(e))
    THEN Returned(NewCloudflareVectorizeProvider(Value(createVectorizeAPIClient(e))))
  ELSE Returned(NewMockVectorProvider)

\* The factory the running snapshot exports.
createVectorStorageProvider(e) ==
  IF e.factory = "sqlite" THEN createVectorStorageProvider_sqlite(e)
  ELSE IF e.factory = "binding" THEN createVectorStorageProvider_binding(e)
  ELSE IF e.factory = "rest" THEN createVectorStorageProvider_rest(e)
  ELSE createVectorStorageProvider_cloudflare(e)

\* provider.isAvailable()
isAvailable(p, e) ==
  IF p.name = "MockVector" THEN TRUE
  ELSE IF p.name = "SQLite" THEN TRUE
  ELSE IF p.impl = "cloudflare-vectorize" THEN isVectorizeBinding(p.vectorDB)
  ELSE Configured(e.cloudflareAccountId) /\ Configured(e.cloudflareApiToken)

\* ---------------------------------------------------------------- the calls

\* lastOp before any call; every call fills in the fields it has.
Idle ==
  [op |-> "none", ok |-> TRUE, error |-> "", mutationId |-> "", batch |-> <<>>,
   queryVector |-> <<>>, options |-> NoOptions, scan |-> <<>>, results |-> <<>>,
   sent |-> <<>>, pending |-> FALSE, stage |-> "", reply |-> Absent,
   snapshot |-> "", storeInVector |-> TRUE, created |-> FALSE, vectorId |-> Absent,
   during |-> "", vectorB |-> <<>>, outcomes |-> <<>>, earlier |-> <<>>,
   totalResults |-> 0, indexCreated |-> Absent]

EnglishVecs == {<<0, 1>>}

NoEnglishEmbeddings == [id \in Ids |-> Absent]

Env(factory, mode, production, vectorDB, accountId, apiToken) ==
  [factory |-> factory, vectorStorageMode |-> mode, isProduction |-> production,
   environment |-> IF production THEN "production" ELSE "development",
   vectorDB |-> vectorDB, cloudflareAccountId |-> accountId,
   cloudflareApiToken |-> apiToken]

\* Development environments with no Cloudflare binding or credentials: the
\* SQLite/Mock factory and the binding-based factory, in auto mode.
LocalEnvs ==
  { Env(f, "auto", FALSE, NotAnObject("undefined"), Absent, Absent) :
      f \in {"sqlite", "binding"} }

\* The caller is between two awaited calls.
Ready == lastOp.op = "none"

\* The caller has taken the outcome of the call it awaited and goes on.
Continue ==
  /\ ~Ready
  /\ ~lastOp.pending
  /\ lastOp' = Idle
  /\ UNCHANGED <<now, env, provider, vectors, englishEmbeddings, transactions,
                 transaction_embeddings, calls>>

\* const vectorProvider = createVectorStorageProvider(vectorDB): a new provider
\* instance with its own Map; the database is the module's and stays.
Create ==
  LET made == createVectorStorageProvider(env)
  IN /\ Ready
     /\ provider' = made.provider
     /\ vectors' = <<>>
     /\ englishEmbeddings' = NoEnglishEmbeddings
     /\ lastOp' = [Idle EXCEPT !.op = "create", !.ok = ~made.threw,
                               !.error = IF made.threw THEN "credentials" ELSE ""]
     /\ UNCHANGED <<now, env, transactions, transaction_embeddings, calls>>

\* MockVectorProvider.insert(vectors), from the call to the return: the body
\* has no await, so it runs as one step.  `during` is the call whose promise
\* the caller had not yet awaited when it made this one, "" when there is none.
MockInsertBody(during, batches) ==
  /\ provider.impl = "mock"
  /\ \E batch \in batches, t \in now..MaxClock :
       /\ now' = t
       /\ vectors' = MockSetAll(vectors, batch, Len(batch), t)
       /\ lastOp' = [Idle EXCEPT !.op = "insert", !.batch = batch,
                                 !.mutationId = "mock", !.during = during]
  /\ UNCHANGED <<env, provider, englishEmbeddings, transactions,
                 transaction_embeddings, calls>>

\* await provider.insert(vectors)
MockInsert == Ready /\ MockInsertBody("", Batches)

\* MockVectorProvider.search(queryVector, options), from the call to the
\* return: no await in the body.
MockSearchBody(during, queries, searches) ==
  /\ provider.impl = "mock"
  /\ \E queryVector \in queries, options \in searches, t \in now..MaxClock :
       /\ now' = t
       /\ lastOp' = [Idle EXCEPT !.op = "search", !.queryVector = queryVector,
                                 !.options = options,
                                 !.scan = MockScan(vectors, t),
                                 !.results = MockSearch(vectors, queryVector, options, t),
                                 !.during = during]
  /\ UNCHANGED <<env, provider, vectors, englishEmbeddings, transactions,
                 transaction_embeddings, calls>>

\* await provider.search(queryVector, options)
MockSearchCall == Ready /\ MockSearchBody("", Queries, Options)

\* SQLiteProvider.setEnglishEmbedding(vectorId, embedding).  No search reads
\* the english rows, so Next leaves the call out.
setEnglishEmbedding ==
  /\ Ready
  /\ provider.impl = "sqlite"
  /\ \E vectorId \in Ids, embedding \in EnglishVecs :
       englishEmbeddings' = [englishEmbeddings EXCEPT ![vectorId] = {embedding}]
  /\ lastOp' = [Idle EXCEPT !.op = "setEnglishEmbedding"]
  /\ UNCHANGED <<now, env, provider, vectors, transactions, transaction_embeddings,
                 calls>>

\* SQLiteProvider.insert(vectors), from the call to the return or the throw:
\* no await in the body, and better-sqlite3 runs every statement synchronously.
SQLiteInsertBody(during, batches) ==
  /\ provider.impl = "sqlite"
  /\ \E batch \in batches, t \in now..MaxClock :
       LET done == SQLiteInsertAll(
                     [ok |-> TRUE, transactions |-> transactions,
                      transaction_embeddings |-> transaction_embeddings],
                     englishEmbeddings, batch, Len(batch), t)
       IN /\ now' = t
          /\ transactions' = done.db.transactions
          /\ transaction_embeddings' = done.db.transaction_embeddings
          /\ englishEmbeddings' = done.english
          /\ lastOp' = [Idle EXCEPT !.op = "insert", !.batch = batch,
                          !.ok = done.db.ok,
                          !.error = IF done.db.ok THEN "" ELSE "SQLite insert failed",
                          !.mutationId = IF done.db.ok THEN "sqlite" ELSE "",
                          !.during = during]
  /\ UNCHANGED <<env, provider, vectors, calls>>

\* await provider.insert(vectors)
SQLiteInsert == Ready /\ SQLiteInsertBody("", Batches)

\* SQLiteProvider.search(queryVector, options), from the call to the return:
\* no await in the body.
SQLiteSearchBody(during, queries, searches) ==
  /\ provider.impl = "sqlite"
  /\ \E queryVector \in queries, options \in searches :
       \E rows \in SQLiteRows(transactions, transaction_embeddings, options) :
         lastOp' = [Idle EXCEPT !.op = "search", !.queryVector = queryVector,
                                !.options = options,
                                !.scan = [i \in 1..Len(rows) |-> rows[i].id],
                                !.results = SQLiteSearch(rows, queryVector, options),
                                !.during = during]
  /\ UNCHANGED <<now, env, provider, vectors, englishEmbeddings, transactions,
                 transaction_embeddings, calls>>

\* await provider.search(queryVector, options)
SQLiteSearchCall == Ready /\ SQLiteSearchBody("", Queries, Options)

\* new CloudflareVectorizeProvider(vectorDB): the constructor keeps whatever
\* it is handed, valid binding or not.
Construct ==
  /\ Ready
  /\ provider' = NewCloudflareVectorizeProvider(env.vectorDB)
  /\ vectors' = <<>>
  /\ englishEmbeddings' = NoEnglishEmbeddings
  /\ lastOp' = [Idle EXCEPT !.op = "construct"]
  /\ UNCHANGED <<now, env, transactions, transaction_embeddings, calls>>

\* CloudflareVectorizeProvider.insert(vectors)
CfInsert ==
  /\ Ready
  /\ provider.impl = "cloudflare-vectorize"
  /\ calls < MaxCalls
  /\ \E batch \in Batches, reply \in InsertReplies :
       LET out == CloudflareVectorizeInsert(provider.vectorDB, batch, reply)
       IN /\ calls' = IF out.invoked THEN calls + 1 ELSE calls
          /\ lastOp' = [Idle EXCEPT !.op = "insert", !.batch = batch, !.ok = out.ok,
                          !.error = out.error, !.mutationId = out.mutationId,
                          !.sent = out.sent]
  /\ UNCHANGED <<now, env, provider, vectors, englishEmbeddings, transactions,
                 transaction_embeddings>>

\* CloudflareVectorizeProvider.search(queryVector, options)
CfSearch ==
  /\ Ready
  /\ provider.impl = "cloudflare-vectorize"
  /\ calls < MaxCalls
  /\ \E queryVector \in Queries, options \in Options, reply \in QueryReplies :
       LET out == CloudflareVectorizeSearch(provider.vectorDB, queryVector, options, reply)
       IN /\ calls' = IF out.invoked THEN calls + 1 ELSE calls
          /\ lastOp' = [Idle EXCEPT !.op = "search", !.queryVector = queryVector,
                          !.options = options, !.ok = out.ok, !.error = out.error,
                          !.results = out.results, !.sent = out.sent]
  /\ UNCHANGED <<now, env, provider, vectors, englishEmbeddings, transactions,
                 transaction_embeddings>>

Init ==
  /\ now = 1
  /\ env \in LocalEnvs
  /\ provider = NoProvider
  /\ vectors = <<>>
  /\ englishEmbeddings = NoEnglishEmbeddings
  /\ transactions = <<>>
  /\ transaction_embeddings = <<>>
  /\ calls = 0
  /\ lastOp = Idle

Next ==
  \/ Continue
  \/ Create
  \/ MockInsert
  \/ MockSearchCall
  \/ SQLiteInsert
  \/ SQLiteSearchCall

Spec == Init /\ [][Next]_vars

\* ------------------------------------------------- selection of the backend

Credentials == [account : Maybe({"", "account"}), token : Maybe({"", "token"})]

\* Every environment a factory tells apart: the storage mode, and per factory
\* the binding it is handed or the credentials and the NODE_ENV it reads.
FactoryEnvs ==
  { Env("sqlite", m, FALSE, NotAnObject("undefined"), Absent, Absent) :
      m \in {"sqlite", "mock", "auto"} }
    \cup { Env("binding", m, FALSE, b, Absent, Absent) :
             m \in {"auto", "mock", "cloudflare"}, b \in Bindings }
    \cup { Env("cloudflare", "auto", FALSE, NotAnObject("undefined"), c.account, c.token) :
             c \in Credentials }
    \cup { Env("rest", m, p, NotAnObject("undefined"), c.account, c.token) :
             m \in {"auto", "mock", "cloudflare"}, p \in BOOLEAN, c \in Credentials }

InitFactory ==
  /\ now = 1
  /\ env \in FactoryEnvs
  /\ provider = NoProvider
  /\ vectors = <<>>
  /\ englishEmbeddings = NoEnglishEmbeddings
  /\ transactions = <<>>
  /\ transaction_embeddings = <<>>
  /\ calls = 0
  /\ lastOp = Idle

NextFactory ==
  \/ Continue
  \/ Create
  \/ Construct
  \/ CfInsert
  \/ CfSearch

SpecFactory == InitFactory /\ [][NextFactory]_vars

\* ---------------------------------------------------- properties of searches

\* The records the local backend holds, as a caller wrote them: id, vector
\* and the metadata a caller supplies other than createdAt.
StoredRecords ==
  IF provider.impl = "mock"
  THEN { [id |-> vectors[i].id, values |-> vectors[i].values,
          transactionType |-> vectors[i].metadata.transactionType,
          category |-> vectors[i].metadata.category,
          amount |-> vectors[i].metadata.amount] : i \in 1..Len(vectors) }
  ELSE IF provider.impl = "sqlite"
  THEN { [id |-> row.id, values |-> Value(ParsedHebrewEmbedding(row)),
          transactionType |-> row.transaction_type,
          category |-> row.category,
          amount |-> row.amount] :
         row \in { r \in AllTransactionRows(transactions, transaction_embeddings) :
                     Present(ParsedHebrewEmbedding(r)) } }
  ELSE {}

StoredIds == { r.id : r \in StoredRecords }

\* A caller's record in the shape of StoredRecords.
AsWritten(vector) ==
  [id |-> vector.id, values |-> vector.values,
   transactionType |-> vector.metadata.transactionType,
   category |-> vector.metadata.category,
   amount |-> vector.metadata.amount]

\* Cosine similarity as a search is to rank by: dot(a, b) / (|a| * |b|), and
\* 0 when either vector has no length.
Cosine(a, b) ==
  LET dot == DotProduct(a, b, Len(a))
      aa == DotProduct(a, a, Len(a))
      bb == DotProduct(b, b, Len(b))
  IN IF aa = 0 \/ bb = 0 THEN Num(0) ELSE [num |-> dot, den |-> aa * bb]

SameNumber(a, b) == GE(a, b) /\ GE(b, a)

LocalSearch == lastOp.op = "search" /\ provider.impl \in {"mock", "sqlite"}

ResultIds == { lastOp.results[i].id : i \in 1..Len(lastOp.results) }

\* C1: a search with {topK: k} and no filter, on a Mock or SQLite backend
\* holding N records of the query's dimension (the backend not empty),
\* returns exactly min(k, N) results, each a stored record with its cosine
\* score, and no record left out scores higher than a record returned.
C1_TopK ==
  ( /\ LocalSearch
    /\ StoredRecords # {}
    /\ ~Present(lastOp.options.filters)
    /\ Present(lastOp.options.topK) )
  => LET q == lastOp.queryVector
         comparable == { r \in StoredRecords : Len(r.values) = Len(q) }
         results == lastOp.results
     IN /\ Len(results) = Min(Value(lastOp.options.topK), Cardinality(comparable))
        /\ \A i \in 1..Len(results) :
             \E r \in comparable : /\ r.id = results[i].id
                                   /\ SameNumber(results[i].score, Cosine(q, r.values))
        /\ \A left \in comparable : left.id \notin ResultIds =>
             \A kept \in comparable : kept.id \in ResultIds =>
               GE(Cosine(q, kept.values), Cosine(q, left.values))

\* C2: an insert of a record whose id is already stored succeeds on Mock and
\* on SQLite, and afterwards exactly one record is stored under that id, with
\* the vector and the metadata of this insert (the last record of the batch
\* under the id).
C2_LastWriteWins ==
  [][ ( /\ lastOp'.op = "insert"
        /\ provider.impl \in {"mock", "sqlite"}
        /\ \E i \in 1..Len(lastOp'.batch) : lastOp'.batch[i].id \in StoredIds )
      => /\ lastOp'.ok
         /\ \A i \in 1..Len(lastOp'.batch) :
              LET id == lastOp'.batch[i].id
                  last == CHOOSE j \in 1..Len(lastOp'.batch) :
                            /\ lastOp'.batch[j].id = id
                            /\ \A l \in 1..Len(lastOp'.batch) :
                                 lastOp'.batch[l].id = id => l <= j
              IN { r \in StoredRecords' : r.id = id }
                   = { AsWritten(lastOp'.batch[last]) }
    ]_vars

\* C3: every result of a search with filters.category = c has
\* metadata.category = c, on Mock (stored and canned) and on SQLite.
C3_CategoryFilter ==
  ( /\ LocalSearch
    /\ Present(lastOp.options.filters)
    /\ Present(Value(lastOp.options.filters).category) )
  => \A i \in 1..Len(lastOp.results) :
       lastOp.results[i].metadata.category
         = Value(Value(lastOp.options.filters).category)

\* C4: every result of a search satisfies each of the constraints
\* transactionType, minAmount and maxAmount the filters supply, on Mock and
\* on SQLite.
C4_OtherFilters ==
  ( LocalSearch /\ Present(lastOp.options.filters) )
  => LET filters == Value(lastOp.options.filters)
     IN \A i \in 1..Len(lastOp.results) :
          LET metadata == lastOp.results[i].metadata
          IN /\ Present(filters.transactionType)
                  => metadata.transactionType = Value(filters.transactionType)
             /\ Present(filters.minAmount) => metadata.amount >= Value(filters.minAmount)
             /\ Present(filters.maxAmount) => metadata.amount <= Value(filters.maxAmount)

\* Where the backend came to the record of this id while scanning.
ScanPosition(id) == CHOOSE i \in 1..Len(lastOp.scan) : lastOp.scan[i] = id

\* C5: every result list of a Mock (stored or canned) or SQLite search is in
\* non-increasing order of score, and results of equal score are in the order
\* the backend scanned them.
C5_Ordered ==
  LocalSearch
  => \A i, j \in 1..Len(lastOp.results) : i < j =>
       /\ GE(lastOp.results[i].score, lastOp.results[j].score)
       /\ SameNumber(lastOp.results[i].score, lastOp.results[j].score)
            => ScanPosition(lastOp.results[i].id) < ScanPosition(lastOp.results[j].id)

\* A SQLite search that returned two results of different scores which the
\* scan had met in the other order.
C5_Witness ==
  /\ LocalSearch
  /\ provider.impl = "sqlite"
  /\ Len(lastOp.results) = 2
  /\ ~SameNumber(lastOp.results[1].score, lastOp.results[2].score)
  /\ ScanPosition(lastOp.results[1].id) > ScanPosition(lastOp.results[2].id)

\* The dimensionality the records of the backend have set: the length of a
\* stored vector.
StoredDimension == Len((CHOOSE r \in StoredRecords : TRUE).values)

\* C6: once a backend holds a record, an insert of a vector of another
\* length fails with a dimension-mismatch error and stores nothing; all the
\* vectors one backend holds have the same length.
C6_DimensionChecked ==
  [][ ( lastOp'.op = "insert" /\ provider.impl \in {"mock", "sqlite"} )
      => /\ ( /\ StoredRecords # {}
              /\ \E i \in 1..Len(lastOp'.batch) :
                   Len(lastOp'.batch[i].values) # StoredDimension )
            => /\ ~lastOp'.ok
               /\ lastOp'.error = "dimension mismatch"
               /\ StoredRecords' = StoredRecords
         /\ \A r1, r2 \in StoredRecords' : Len(r1.values) = Len(r2.values)
    ]_vars

\* C7: in mode auto with no valid binding, the provider the binding-based
\* factory returned answers search(r.values, {topK: 1}) after insert([r])
\* with exactly one result: r's id, score 1, r's metadata.
C7_RoundTrip ==
  \A r \in VectorRecord, t \in 1..MaxClock :
    ( /\ env.factory = "binding"
      /\ env.vectorStorageMode = "auto"
      /\ ~isVectorizeBinding(env.vectorDB)
      /\ provider = createVectorStorageProvider(env).provider
      /\ vectors = MockSetAll(<<>>, <<r>>, 1, t)
      /\ lastOp.op = "search"
      /\ lastOp.queryVector = r.values
      /\ lastOp.options = [NoOptions EXCEPT !.topK = {1}] )
    => /\ Len(lastOp.results) = 1
       /\ lastOp.results[1].id = r.id
       /\ SameNumber(lastOp.results[1].score, Num(1))
       /\ lastOp.results[1].metadata = r.metadata

\* ------------------------------------------- properties of backend selection

\* A valid Vectorize binding (VectorizeBinding, types.ts): an object whose
\* insert and query are functions.
ValidBinding(b) == b.kind = "object" /\ b.insert = "function" /\ b.query = "function"

Missing(v) == v = Absent \/ v = {""}

\* C8: the binding-based factory never throws; it returns the
\* CloudflareVectorize provider exactly when the mode is not mock and the
\* binding is valid, the Mock provider otherwise; and the provider it returns
\* reports isAvailable() = true.
C8_BindingFactory ==
  ( env.factory = "binding" /\ lastOp.op = "create" )
  => /\ lastOp.ok
     /\ IF env.vectorStorageMode # "mock" /\ ValidBinding(env.vectorDB)
        THEN provider.name = "CloudflareVectorize" /\ provider.vectorDB = env.vectorDB
        ELSE provider.name = "MockVector"
     /\ isAvailable(provider, env)

\* Mode cloudflare asked for and a binding with insert but no query: the
\* factory fell back to the Mock provider.
C8_Witness ==
  /\ env.factory = "binding"
  /\ env.vectorStorageMode = "cloudflare"
  /\ env.vectorDB.kind = "object"
  /\ env.vectorDB.insert = "function"
  /\ env.vectorDB.query = "missing"
  /\ lastOp.op = "create"
  /\ provider.name = "MockVector"

\* C9: the Cloudflare-only factory throws when the account id or the API
\* token is missing and returns the Cloudflare provider otherwise; it never
\* returns another provider in its place.
C9_CloudflareOnlyFactory ==
  ( env.factory = "cloudflare" /\ lastOp.op = "create" )
  => IF Missing(env.cloudflareAccountId) \/ Missing(env.cloudflareApiToken)
     THEN ~lastOp.ok /\ provider = NoProvider
     ELSE lastOp.ok /\ provider.name = "CloudflareVectorize" /\ provider.impl = "cloudflare"

\* The account id set and the API token missing: the factory threw.
C9_Witness ==
  /\ env.factory = "cloudflare"
  /\ env.cloudflareAccountId = {"account"}
  /\ env.cloudflareApiToken = Absent
  /\ lastOp.op = "create"
  /\ ~lastOp.ok
  /\ provider = NoProvider

\* C10: unavailability of the remote backend is found before any request:
\* the factory's selection invokes nothing, and insert and search on a
\* CloudflareVectorizeProvider whose binding is not valid fail without the
\* binding's insert or query being invoked.
C10_NoCallBeforeAvailability ==
  [][ /\ lastOp'.op = "create" => calls' = calls /\ lastOp'.sent = <<>>
      /\ ( /\ lastOp'.op \in {"insert", "search"}
           /\ provider.impl = "cloudflare-vectorize"
           /\ ~ValidBinding(provider.vectorDB) )
         => /\ ~lastOp'.ok
            /\ calls' = calls
            /\ lastOp'.sent = <<>>
    ]_vars

\* An insert on a provider built over a binding that lacks query has failed
\* as unavailable, the binding never invoked.
C10_Witness ==
  /\ provider.impl = "cloudflare-vectorize"
  /\ provider.vectorDB.kind = "object"
  /\ provider.vectorDB.insert = "function"
  /\ provider.vectorDB.query = "missing"
  /\ lastOp.op = "insert"
  /\ ~lastOp.ok
  /\ lastOp.error = "Cloudflare Vectorize is not available"
  /\ calls = 0

\* ------------------------------------------------------------ remote requests

\* A request on its way to the Vectorize service: the arguments handed to a
\* Workers binding, the payload the REST client posts, or the arguments of a
\* call of the @mastra/vectorize store.
Request(kind, records, vector, topK, filter, dimension) ==
  [kind |-> kind, vectors |-> records, vector |-> vector, topK |-> topK,
   filter |-> filter, dimension |-> dimension]

\* How a request ends when it ends.  For a Workers binding and the @mastra
\* store the call resolves ("full") or rejects ("reject").  For the REST
\* client fetch rejects ("transport-error"), or the response is a non-2xx, or
\* it is a 2xx whose body is not JSON, is JSON null, has no result ({}, or
\* the error envelope {success: false, result: null}), is {result: {}} (a
\* result without the expected member), or is complete.
ReplyKinds ==
  {"reject", "transport-error", "non-2xx", "not-json", "null-body", "no-result",
   "empty-result", "full"}

Reply(kind) ==
  [kind |-> kind,
   mutationId |-> IF kind = "full" THEN {"mutation-1"} ELSE Absent,
   matches |-> IF kind = "full"
               THEN <<ServerMatch("x", 90), ServerMatch("y", 50), ServerMatch("z", 0)>>
               ELSE <<>>]

BindingReplies == { Reply(k) : k \in {"reject", "full"} }

RestReplies ==
  { Reply(k) : k \in {"transport-error", "non-2xx", "not-json", "null-body",
                      "no-result", "empty-result", "full"} }

\* What a call made of the response: it threw, or it returned.
Threw(error) == [ok |-> FALSE, error |-> error, mutationId |-> "", matches |-> <<>>]

\* insert of the client createVectorizeAPIClient builds, from the response on.
RestInsertOutcome(reply) ==
  IF reply.kind = "transport-error" THEN Threw("fetch failed")
  ELSE IF reply.kind = "non-2xx" THEN Threw("Vectorize insert failed")
  ELSE IF reply.kind = "not-json" THEN Threw("SyntaxError")
  ELSE IF reply.kind = "null-body" THEN Threw("TypeError")
  ELSE [ok |-> TRUE, error |-> "",
        mutationId |-> IF Truthy(reply.mutationId) THEN Value(reply.mutationId)
                       ELSE "api_insert",
        matches |-> <<>>]

\* query of the client createVectorizeAPIClient builds, from the response on.
RestQueryOutcome(reply) ==
  IF reply.kind = "transport-error" THEN Threw("fetch failed")
  ELSE IF reply.kind = "non-2xx" THEN Threw("Vectorize query failed")
  ELSE IF reply.kind = "not-json" THEN Threw("SyntaxError")
  ELSE IF reply.kind = "null-body" THEN Threw("TypeError")
  ELSE [ok |-> TRUE, error |-> "", mutationId |-> "", matches |-> reply.matches]

\* insert and query of a Workers binding: the promise resolves or rejects.
BindingInsertOutcome(reply) ==
  IF reply.kind = "reject" THEN Threw("rejected")
  ELSE [ok |-> TRUE, error |-> "", mutationId |-> Value(reply.mutationId),
        matches |-> <<>>]

BindingQueryOutcome(reply) ==
  IF reply.kind = "reject" THEN Threw("rejected")
  ELSE [ok |-> TRUE, error |-> "", mutationId |-> "", matches |-> reply.matches]

\* The payload the REST client's query posts for the arguments it is given:
\* topK: options.topK || 5, filter: options.filter.
RestQueryPayload(request) ==
  [request EXCEPT !.topK = IF request.topK = 0 THEN DefaultTopK ELSE request.topK]

\* buildCloudflareFilter (cloudflare.ts): the filter the @mastra/vectorize
\* provider hands to store.query.
buildCloudflareFilter(filters) ==
  IF ~Present(filters) THEN Absent
  ELSE
    LET f == Value(filters)
        afterMin == IF Present(f.minAmount)
                    THEN {[gte |-> f.minAmount, lte |-> Absent]} ELSE Absent
        cloudflareFilter ==
          [transactionType |-> IF Truthy(f.transactionType)
                               THEN {[eq |-> Value(f.transactionType)]} ELSE Absent,
           category |-> IF Truthy(f.category)
                        THEN {[eq |-> Value(f.category)]} ELSE Absent,
           amount |-> IF ~Present(f.maxAmount) THEN afterMin
                      ELSE IF Present(afterMin)
                        THEN {[Value(afterMin) EXCEPT !.lte = f.maxAmount]}
                      ELSE {[gte |-> Absent, lte |-> f.maxAmount]}]
    IN IF /\ cloudflareFilter.transactionType = Absent
          /\ cloudflareFilter.category = Absent
          /\ cloudflareFilter.amount = Absent
       THEN Absent ELSE {cloudflareFilter}

\* The filter searchSimilarTransactions (vector search tool) hands to
\* vectorDB.query.
searchSimilarTransactionsFilter(filters) ==
  LET f == Value(filters)
      vectorizeFilter ==
        [transactionType |-> IF Present(filters) /\ Truthy(f.transactionType)
                             THEN {[eq |-> Value(f.transactionType)]} ELSE Absent,
         category |-> IF Present(filters) /\ Truthy(f.category)
                      THEN {[eq |-> Value(f.category)]} ELSE Absent,
         amount |-> IF Present(filters)
                         /\ (Present(f.minAmount) \/ Present(f.maxAmount))
                    THEN {[gte |-> f.minAmount, lte |-> f.maxAmount]} ELSE Absent]
  IN IF /\ vectorizeFilter.transactionType = Absent
        /\ vectorizeFilter.category = Absent
        /\ vectorizeFilter.amount = Absent
     THEN Absent ELSE {vectorizeFilter}

\* Every value of options.filters over two values per constraint, the empty
\* string and 0 among them.
AllFilters ==
  [transactionType : Maybe({"monthly", ""}), category : Maybe({"fuel", ""}),
   minAmount : Maybe({0, 1500}), maxAmount : Maybe({1500})]

RemoteOptions == [topK : Maybe(TopKs), minScore : {Absent}, filters : Maybe(AllFilters)]

RemoteQueries == {<<1, 0>>}

\* Environments in which a caller ends up with a remote backend: a Workers
\* binding handed to the binding-based factory, credentials for the REST
\* client, credentials for the Cloudflare-only factory; and one with nothing.
RemoteEnvs ==
  { Env("binding", "auto", FALSE,
        [kind |-> "object", insert |-> "function", query |-> "function", rest |-> FALSE],
        Absent, Absent),
    Env("binding", "auto", FALSE, NotAnObject("undefined"), Absent, Absent),
    Env("rest", "auto", FALSE, NotAnObject("undefined"), {"account"}, {"token"}),
    Env("cloudflare", "auto", FALSE, NotAnObject("undefined"), {"account"}, {"token"}) }

\* vectors[0]?.values.length || 1536 (cloudflare.ts)
DefaultDimension == 1536

\* Who answers the request in flight: the @mastra store, the REST client's
\* fetch, or a Workers binding.
Answering ==
  IF lastOp.op = "searchSimilar" THEN "binding"
  ELSE IF provider.impl = "cloudflare" THEN "store"
  ELSE IF provider.vectorDB.rest THEN "rest"
  ELSE "binding"

\* provider.insert(vectors) on a remote provider, up to its first request.
RemoteInsert ==
  /\ Ready
  /\ provider.impl \in {"cloudflare-vectorize", "cloudflare"}
  /\ calls + (IF provider.impl = "cloudflare" THEN 2 ELSE 1) <= MaxCalls
  /\ \E batch \in Batches :
       lastOp' =
         IF provider.impl = "cloudflare"
         THEN [Idle EXCEPT !.op = "insert", !.batch = batch, !.pending = TRUE,
                 !.stage = "createIndex",
                 !.sent = << Request("createIndex", <<>>, <<>>, 0, Absent,
                               IF Len(batch[1].values) = 0 THEN DefaultDimension
                               ELSE Len(batch[1].values)) >>]
         ELSE IF ~isVectorizeBinding(provider.vectorDB)
         THEN [Idle EXCEPT !.op = "insert", !.batch = batch, !.ok = FALSE,
                 !.error = "Cloudflare Vectorize is not available"]
         ELSE [Idle EXCEPT !.op = "insert", !.batch = batch, !.pending = TRUE,
                 !.stage = "insert",
                 !.sent = << Request("insert", batch, <<>>, 0, Absent, 0) >>]
  /\ calls' = IF lastOp'.pending THEN calls + 1 ELSE calls
  /\ UNCHANGED <<now, env, provider, vectors, englishEmbeddings, transactions,
                 transaction_embeddings>>

\* provider.search(queryVector, options) on a remote provider, up to its
\* request.
RemoteSearch ==
  /\ Ready
  /\ provider.impl \in {"cloudflare-vectorize", "cloudflare"}
  /\ calls + 1 <= MaxCalls
  /\ \E queryVector \in RemoteQueries, options \in RemoteOptions :
       LET asked == [Idle EXCEPT !.op = "search", !.queryVector = queryVector,
                       !.options = options]
           bindingRequest == Request("query", <<>>, queryVector, TopKOf(options),
                                     VectorizeFilter(options), 0)
       IN lastOp' =
            IF provider.impl = "cloudflare"
            THEN [asked EXCEPT !.pending = TRUE, !.stage = "query",
                    !.sent = << Request("query", <<>>, queryVector, TopKOf(options),
                                        buildCloudflareFilter(options.filters), 0) >>]
            ELSE IF ~isVectorizeBinding(provider.vectorDB)
            THEN [asked EXCEPT !.ok = FALSE,
                    !.error = "Cloudflare Vectorize is not available"]
            ELSE [asked EXCEPT !.pending = TRUE, !.stage = "query",
                    !.sent = << IF provider.vectorDB.rest
                                THEN RestQueryPayload(bindingRequest)
                                ELSE bindingRequest >>]
  /\ calls' = IF lastOp'.pending THEN calls + 1 ELSE calls
  /\ UNCHANGED <<now, env, provider, vectors, englishEmbeddings, transactions,
                 transaction_embeddings>>

\* The two canned entries searchSimilarTransactions answers with when it has
\* no binding to query.
filteredMockResults(options, t) ==
  LET all == SubSeq(mockResults(t), 1, 2)
      Keep(result) ==
        /\ matchesFilter(result.metadata, Value(options.filters))
        /\ GE(result.score, MinScoreOf(options))
  IN IF Present(options.filters) THEN SelectSeq(all, Keep) ELSE all

\* results: filteredMockResults.slice(0, topK)
toolMockResults(options, t) == Slice(filteredMockResults(options, t), TopKOf(options))

\* searchSimilarTransactions(searchQuery, vectorDB, topK, minScore, filters) of
\* the vector search tool, up to its request.
SearchSimilar ==
  /\ Ready
  /\ calls + 1 <= MaxCalls
  /\ \E queryVector \in RemoteQueries, options \in RemoteOptions :
       LET asked == [Idle EXCEPT !.op = "searchSimilar", !.queryVector = queryVector,
                       !.options = options]
       IN lastOp' =
            IF env.vectorDB.kind \in {"undefined", "null"}
                 \/ env.vectorDB.query # "function"
            THEN [asked EXCEPT !.results = toolMockResults(options, now),
                    !.totalResults = Len(filteredMockResults(options, now))]
            ELSE [asked EXCEPT !.pending = TRUE, !.stage = "query",
                    !.sent = << Request("query", <<>>, queryVector, TopKOf(options),
                                  searchSimilarTransactionsFilter(options.filters), 0) >>]
  /\ calls' = IF lastOp'.pending THEN calls + 1 ELSE calls
  /\ UNCHANGED <<now, env, provider, vectors, englishEmbeddings, transactions,
                 transaction_embeddings>>

\* A mapping that gives every result the score 0.
ScoreAlwaysZero(score) == Num(0)

\* result.score || 0: the score itself unless it is NaN (0 stays 0).
ScoreOrZero(score) == IF IsNaN(score) THEN Num(0) ELSE score

\* results.map(result => ({id, score: result.score || 0, metadata})) of the
\* @mastra/vectorize provider.
CloudflareVectorResults(results) ==
  [i \in 1..Len(results) |->
     [id |-> results[i].id, score |-> ScoreOrZero(results[i].score),
      metadata |-> results[i].metadata]]

\* searchResult.matches.filter(match => match.score >= minScore).map(...) of
\* the binding-based provider and of searchSimilarTransactions.
CloudflareVectorizeResults(matches, options) ==
  LET KeptByScore(match) == GE(match.score, MinScoreOf(options))
      kept == SelectSeq(matches, KeptByScore)
  IN [i \in 1..Len(kept) |->
        [id |-> kept[i].id, score |-> kept[i].score, metadata |-> kept[i].metadata]]

\* An ensureIndexExists with no catch: a rejected createIndex is thrown on.
ensureIndexExistsRethrowing(reply) ==
  [threw |-> reply.kind = "reject", created |-> reply.kind # "reject"]

\* ensureIndexExists(dimension), from the answer to createIndex on: a rejection
\* is caught and logged, so the method returns either way.
ensureIndexExists(reply) ==
  [threw |-> FALSE, created |-> reply.kind # "reject"]

\* What the caller gets once the request in flight is answered.
Answered(reply) ==
  LET who == Answering
      insertOutcome == IF who = "rest" THEN RestInsertOutcome(reply)
                       ELSE BindingInsertOutcome(reply)
      queryOutcome == IF who = "rest" THEN RestQueryOutcome(reply)
                      ELSE BindingQueryOutcome(reply)
      done == [lastOp EXCEPT !.pending = FALSE, !.reply = {reply}]
  IN IF lastOp.stage = "insert"
     THEN [done EXCEPT !.ok = insertOutcome.ok, !.error = insertOutcome.error,
                       !.mutationId = insertOutcome.mutationId]
     ELSE IF lastOp.stage = "createIndex"
     THEN IF ensureIndexExists(reply).threw
          THEN [done EXCEPT !.ok = FALSE, !.error = "rejected",
                            !.indexCreated = {FALSE}]
          ELSE [lastOp EXCEPT !.stage = "upsert",
                  !.indexCreated = {ensureIndexExists(reply).created},
                  !.sent = Append(@, Request("upsert", lastOp.batch, <<>>, 0, Absent, 0))]
     ELSE IF lastOp.stage = "upsert"
     THEN [done EXCEPT !.ok = reply.kind # "reject",
                       !.error = IF reply.kind = "reject" THEN "rejected" ELSE "",
                       !.mutationId = IF reply.kind = "reject" THEN ""
                                      ELSE "cf_generated"]
     ELSE LET results == IF who = "store"
                         THEN CloudflareVectorResults(queryOutcome.matches)
                         ELSE CloudflareVectorizeResults(queryOutcome.matches,
                                                         lastOp.options)
          IN [done EXCEPT !.ok = queryOutcome.ok, !.error = queryOutcome.error,
                          !.results = results,
                          !.totalResults = IF lastOp.op = "searchSimilar"
                                           THEN Len(results) ELSE 0]

\* The service answers the request in flight, and the call goes on from there.
Respond ==
  /\ lastOp.pending
  /\ \E reply \in IF Answering = "rest" THEN RestReplies ELSE BindingReplies :
       lastOp' = Answered(reply)
  /\ calls' = IF lastOp.stage = "createIndex" THEN calls + 1 ELSE calls
  /\ UNCHANGED <<now, env, provider, vectors, englishEmbeddings, transactions,
                 transaction_embeddings>>

InitRemote ==
  /\ now = 1
  /\ env \in RemoteEnvs
  /\ provider = NoProvider
  /\ vectors = <<>>
  /\ englishEmbeddings = NoEnglishEmbeddings
  /\ transactions = <<>>
  /\ transaction_embeddings = <<>>
  /\ calls = 0
  /\ lastOp = Idle

NextRemote ==
  \/ Continue
  \/ Create
  \/ RemoteInsert
  \/ RemoteSearch
  \/ SearchSimilar
  \/ Respond

SpecRemote == InitRemote /\ [][NextRemote]_vars

\* ------------------------------------------------ properties of remote calls

\* The filter expression a filters value stands for: $eq per supplied
\* equality constraint, one amount object with $gte and/or $lte, nothing
\* when no constraint is supplied.
FilterExpression(filters) ==
  IF ~Present(filters) \/ Value(filters) = NoFilters THEN Absent
  ELSE LET f == Value(filters)
       IN {[transactionType |-> IF Present(f.transactionType)
                                THEN {[eq |-> Value(f.transactionType)]} ELSE Absent,
            category |-> IF Present(f.category)
                         THEN {[eq |-> Value(f.category)]} ELSE Absent,
            amount |-> IF Present(f.minAmount) \/ Present(f.maxAmount)
                       THEN {[gte |-> f.minAmount, lte |-> f.maxAmount]}
                       ELSE Absent]}

QuerySent ==
  /\ lastOp.op \in {"search", "searchSimilar"}
  /\ lastOp.sent # <<>>

\* C11: whatever the filters value, the query each remote search
\* implementation sends carries the same filter expression: {$eq: value} for
\* transactionType and for category when supplied, one amount object with
\* $gte and/or $lte when a bound is supplied, and no filter when no
\* constraint is supplied.
C11_FilterExpression ==
  QuerySent => lastOp.sent[1].filter = FilterExpression(lastOp.options.filters)

\* The requests of the call that write records.
WriteRequests ==
  { i \in 1..Len(lastOp.sent) : lastOp.sent[i].kind \in {"insert", "upsert"} }

\* C12: a remote insert that returns has submitted all the records of the
\* call in one write request, and the mutationId it returns is the token the
\* server issued in its answer to that request; in the binding-based
\* provider, over the REST client, and in the @mastra/vectorize provider.
C12_OneRequestServerToken ==
  ( /\ lastOp.op = "insert"
    /\ provider.impl \in {"cloudflare-vectorize", "cloudflare"}
    /\ ~lastOp.pending
    /\ lastOp.ok )
  => /\ Cardinality(WriteRequests) = 1
     /\ \A i \in WriteRequests : lastOp.sent[i].vectors = lastOp.batch
     /\ Present(lastOp.reply)
     /\ Value(lastOp.reply).mutationId = {lastOp.mutationId}

\* The REST client's call has been answered.
RestAnswered ==
  /\ lastOp.op \in {"insert", "search"}
  /\ provider.impl = "cloudflare-vectorize"
  /\ provider.vectorDB.rest
  /\ ~lastOp.pending
  /\ Present(lastOp.reply)

\* C13: every remote failure of the REST client (a transport error, a
\* non-2xx response, a response body that is not the expected one) makes the
\* insert or query fail; none ends as a mutationId or a list of matches.
C13_RestFailuresFail ==
  ( RestAnswered /\ Value(lastOp.reply).kind # "full" ) => ~lastOp.ok

\* The steps the program itself takes: everything but the service's answer.
\* The event loop runs a caller whose awaited call has settled; nothing
\* makes the service answer.
ProgramStep ==
  \/ Continue
  \/ Create
  \/ RemoteInsert
  \/ RemoteSearch
  \/ SearchSimilar

SpecRemoteLive == SpecRemote /\ WF_vars(ProgramStep)

\* C14: a remote insert or search does not stay pending forever: if the
\* server never answers, the call ends all the same, with a timeout error.
\* Stated for the calls that go through the REST client's fetch.
C14_NoCallPendingForever ==
  (lastOp.pending /\ Answering = "rest") ~> ~lastOp.pending

\* ------------------------------------------------ the database under faults

\* The data a caller hands to insertTransaction.
TransactionData ==
  { [id |-> id, transactionType |-> m.transactionType, category |-> m.category,
     amount |-> m.amount, hebrewEmbedding |-> h, englishEmbedding |-> e] :
      id \in Ids, m \in Metas, h \in Vecs, e \in EnglishVecs }

\* insertTransaction(data) called on the module's database, the engine
\* refusing one statement or none.
InsertTransactionCall ==
  /\ Ready
  /\ \E data \in TransactionData, fault \in Faults, t \in now..MaxClock :
       LET done == insertTransactionUnder(
                     [ok |-> TRUE, transactions |-> transactions,
                      transaction_embeddings |-> transaction_embeddings],
                     data, t, fault)
       IN /\ now' = t
          /\ transactions' = done.transactions
          /\ transaction_embeddings' = done.transaction_embeddings
          /\ lastOp' = [Idle EXCEPT !.op = "insertTransaction", !.ok = done.ok,
                          !.error = IF done.ok THEN ""
                                    ELSE IF fault = "none" THEN "SQLITE_CONSTRAINT_PRIMARYKEY"
                                    ELSE fault]
  /\ UNCHANGED <<env, provider, vectors, englishEmbeddings, calls>>

InitDatabase ==
  /\ now = 1
  /\ env = Env("sqlite", "auto", FALSE, NotAnObject("undefined"), Absent, Absent)
  /\ provider = NoProvider
  /\ vectors = <<>>
  /\ englishEmbeddings = NoEnglishEmbeddings
  /\ transactions = <<>>
  /\ transaction_embeddings = <<>>
  /\ calls = 0
  /\ lastOp = Idle

NextDatabase ==
  \/ Continue
  \/ Create
  \/ SQLiteInsert
  \/ InsertTransactionCall

SpecDatabase == InitDatabase /\ [][NextDatabase]_vars

\* The embedding rows of one type that point at the transaction id.
EmbeddingRows(id, type) ==
  { j \in 1..Len(transaction_embeddings) :
      /\ transaction_embeddings[j].transaction_id = id
      /\ transaction_embeddings[j].embedding_type = type }

\* C15: after any sequence of insertTransaction calls, refused or not, every
\* row of transactions has exactly one 'hebrew' and exactly one 'english' row
\* in transaction_embeddings, and every embedding row points at a row of
\* transactions.
C15_EmbeddingsComplete ==
  /\ \A i \in 1..Len(transactions) :
       /\ Cardinality(EmbeddingRows(transactions[i].id, "hebrew")) = 1
       /\ Cardinality(EmbeddingRows(transactions[i].id, "english")) = 1
  /\ \A j \in 1..Len(transaction_embeddings) :
       /\ transaction_embeddings[j].embedding_type \in {"hebrew", "english"}
       /\ \E i \in 1..Len(transactions) :
            transactions[i].id = transaction_embeddings[j].transaction_id

\* A call refused at its last statement, after the transactions row and the
\* hebrew row were written, on a database that already holds a transaction.
C15_Witness ==
  /\ lastOp.op = "insertTransaction"
  /\ ~lastOp.ok
  /\ lastOp.error = "english"
  /\ Len(transactions) = 1

\* ------------------------------------------- properties of the local scoring

ZeroNorm(v) == DotProduct(v, v, Len(v)) = 0

\* this.cosineSimilarity of the provider the calls go to
ProviderCosineSimilarity(a, b) ==
  IF provider.impl = "mock" THEN MockCosineSimilarity(a, b)
  ELSE SQLiteCosineSimilarity(a, b)

\* C17: in a search of the Mock or the SQLite provider, cosineSimilarity gives
\* 0 for every stored vector it is applied to when that vector or the query
\* vector has zero norm, so no search scores a record with the value of a
\* division by zero.
C17_ZeroNormScoresZero ==
  LocalSearch =>
    \A r \in StoredRecords :
      (/\ Len(r.values) = Len(lastOp.queryVector)
       /\ ZeroNorm(r.values) \/ ZeroNorm(lastOp.queryVector))
        => ProviderCosineSimilarity(lastOp.queryVector, r.values) = Num(0)

\* --------------------------------------------- a database file with old rows

\* An embedding_vector text JSON.parse throws on.
BrokenText == <<"[", "1", ",">>

\* The database file as an earlier writer left it: empty, or one transaction
\* whose hebrew embedding_vector is not a JSON text.
StoredFiles ==
  { [transactions |-> <<>>, transaction_embeddings |-> <<>>],
    [transactions |->
       << [id |-> "a", transaction_type |-> "regular", category |-> "food",
           amount |-> 1000, created_at |-> 0] >>,
     transaction_embeddings |->
       << [transaction_id |-> "a", embedding_type |-> "hebrew",
           embedding_vector |-> BrokenText],
          [transaction_id |-> "a", embedding_type |-> "english",
           embedding_vector |-> JSONstringify(<<0, 1>>)] >>] }

InitStoredFile ==
  /\ now = 1
  /\ env = Env("sqlite", "auto", FALSE, NotAnObject("undefined"), Absent, Absent)
  /\ provider = NoProvider
  /\ vectors = <<>>
  /\ englishEmbeddings = NoEnglishEmbeddings
  /\ \E file \in StoredFiles :
       /\ transactions = file.transactions
       /\ transaction_embeddings = file.transaction_embeddings
  /\ calls = 0
  /\ lastOp = Idle

NextStoredFile ==
  \/ Continue
  \/ Create
  \/ SQLiteInsert
  \/ SQLiteSearchCall

SpecStoredFile == InitStoredFile /\ [][NextStoredFile]_vars

\* The rows the last SQLite search went through, in its order.
ScannedRows ==
  CHOOSE rows \in SQLiteRows(transactions, transaction_embeddings, lastOp.options) :
    lastOp.scan = [i \in 1..Len(rows) |-> rows[i].id]

\* JSON.parse threw on the row's hebrew_embedding.
Undeserializable(row) == ~Present(ParsedHebrewEmbedding(row))

Deserializable(row) == ~Undeserializable(row)

SkippedRows == Len(SelectSeq(ScannedRows, Undeserializable))

\* C18: when SQLiteProvider.search skips rows whose vector cannot be
\* deserialized, what it returns to the caller tells how many: the value
\* returned differs from the one the same search returns when those rows are
\* not in the table.
C18_SkipsReported ==
  (lastOp.op = "search" /\ provider.impl = "sqlite" /\ SkippedRows > 0)
    => lastOp.results #
         SQLiteSearch(SelectSeq(ScannedRows, Deserializable),
                      lastOp.queryVector, lastOp.options)

\* ------------------------------------- properties of MockVectorProvider.insert

\* The records of the batch that no later record of the batch replaces.
LastWritten ==
  { n \in 1..Len(lastOp.batch) :
      \A k \in (n + 1)..Len(lastOp.batch) : lastOp.batch[k].id # lastOp.batch[n].id }

MockInserted == lastOp.op = "insert" /\ provider.impl = "mock"

\* C20: MockVectorProvider.insert stores a record whose metadata carries a
\* createdAt of the caller with that createdAt, and with every other field
\* and the vector, as the caller gave them.
C20_CallerCreatedAtKept ==
  MockInserted =>
    \A n \in LastWritten :
      \E i \in 1..Len(vectors) : vectors[i] = lastOp.batch[n]

\* ---------------------------------------------------------- analyzeTransaction

\* The versions of transaction-analyzer.ts that declare storeInVector, by the
\* line of analyzeTransaction's parameter.
Snapshots == {"part_005:51", "part_006:49", "part_006:220", "part_006:596"}

\* The versions whose storing block is under `if (storeInVector)`; in the
\* others the condition is commented out.
GuardedSnapshots == {"part_006:49", "part_006:220"}

\* The version that catches a failure of the storing block and goes on.
CatchingSnapshots == {"part_006:220"}

\* analyzeTransaction(transactionText, storeInVector, vectorDB) from the
\* analysis and the embeddings on: the storing block and the value returned.
analyzeTransaction(snapshot, storeInVector, vector, t) ==
  LET stores == snapshot \notin GuardedSnapshots \/ storeInVector
      made == createVectorStorageProvider(env)
      batch == << [vector EXCEPT !.metadata.createdAt = t] >>
      impl == made.provider.impl
      before == [ok |-> TRUE, transactions |-> transactions,
                 transaction_embeddings |-> transaction_embeddings]
      db == IF impl = "sqlite"
            THEN SQLiteInsertAll(before, NoEnglishEmbeddings, batch, 1, t).db
            ELSE before
      inserted == ~made.threw /\ db.ok
      caught == snapshot \in CatchingSnapshots
  IN IF ~stores
     THEN [provider |-> provider, vectors |-> vectors, db |-> before,
           lastOp |-> [Idle EXCEPT !.op = "analyzeTransaction", !.snapshot = snapshot,
                                   !.storeInVector = storeInVector]]
     ELSE [provider |-> IF made.threw THEN provider ELSE made.provider,
           vectors |-> IF made.threw THEN vectors
                       ELSE IF impl = "mock"
                         THEN MockSetAll(NewMockStore(vectors), batch, 1, t)
                       ELSE <<>>,
           db |-> IF made.threw THEN before ELSE db,
           lastOp |-> [Idle EXCEPT
             !.op = "analyzeTransaction", !.snapshot = snapshot,
             !.storeInVector = storeInVector,
             !.created = ~made.threw,
             !.batch = IF made.threw THEN <<>> ELSE batch,
             !.ok = inserted \/ caught,
             !.error = IF inserted \/ caught THEN "" ELSE "insert failed",
             !.vectorId = IF inserted THEN {vector.id} ELSE Absent,
             !.mutationId = IF ~inserted THEN ""
                            ELSE IF impl = "mock" THEN "mock" ELSE "sqlite"]]

\* The tool's execute: analyzeTransaction(context.transactionText,
\* context.storeInVector, context.vectorDB).
AnalyzeTransaction ==
  /\ Ready
  /\ \E snapshot \in Snapshots, storeInVector \in BOOLEAN, vector \in VectorRecord,
        t \in now..MaxClock :
       LET done == analyzeTransaction(snapshot, storeInVector, vector, t)
       IN /\ now' = t
          /\ provider' = done.provider
          /\ vectors' = done.vectors
          /\ transactions' = done.db.transactions
          /\ transaction_embeddings' = done.db.transaction_embeddings
          /\ lastOp' = done.lastOp
  /\ UNCHANGED <<env, englishEmbeddings, calls>>

NextAnalyzer ==
  \/ Continue
  \/ AnalyzeTransaction

SpecAnalyzer == Init /\ [][NextAnalyzer]_vars

\* C19: with storeInVector false, analyzeTransaction creates no provider,
\* hands no record to an insert, and returns neither vectorId nor mutationId,
\* in every version of the analyzer that declares storeInVector.
C19_NothingStoredWhenNotAsked ==
  (lastOp.op = "analyzeTransaction" /\ ~lastOp.storeInVector)
    => /\ ~lastOp.created
       /\ lastOp.batch = <<>>
       /\ lastOp.vectorId = Absent
       /\ lastOp.mutationId = ""

\* ----------------------------------------------------------- concurrent calls

\* A call made while the promise of the caller's previous call is not yet
\* awaited, as in Promise.all([provider.insert(a), provider.search(q)]).  The
\* bodies of insert and search of both providers are synchronous, so the calls
\* overlap as whole bodies, in the order they are made.
Overlapping == ~Ready /\ ~lastOp.pending /\ lastOp.op \in {"insert", "search"}

\* The calls of the concurrent callers: batches of records of one dimension,
\* one query vector, and a search with no options or with a category filter.
ConcurrentBatches ==
  { batch \in Batches : \A n \in 1..Len(batch) : Len(batch[n].values) = 2 }

ConcurrentQueries == {<<1, 0>>}

ConcurrentOptions ==
  {NoOptions, [NoOptions EXCEPT !.filters = {[NoFilters EXCEPT !.category = {"fuel"}]}]}

AwaitedMockInsert == Ready /\ MockInsertBody("", ConcurrentBatches)

AwaitedMockSearch == Ready /\ MockSearchBody("", ConcurrentQueries, ConcurrentOptions)

AwaitedSQLiteInsert == Ready /\ SQLiteInsertBody("", ConcurrentBatches)

AwaitedSQLiteSearch ==
  Ready /\ SQLiteSearchBody("", ConcurrentQueries, ConcurrentOptions)

OverlappingMockInsert ==
  Overlapping /\ MockInsertBody(lastOp.op, ConcurrentBatches)

OverlappingMockSearch ==
  Overlapping /\ MockSearchBody(lastOp.op, ConcurrentQueries, ConcurrentOptions)

OverlappingSQLiteInsert ==
  Overlapping /\ SQLiteInsertBody(lastOp.op, ConcurrentBatches)

OverlappingSQLiteSearch ==
  Overlapping /\ SQLiteSearchBody(lastOp.op, ConcurrentQueries, ConcurrentOptions)

NextConcurrent ==
  \/ Continue
  \/ Create
  \/ AwaitedMockInsert
  \/ AwaitedMockSearch
  \/ AwaitedSQLiteInsert
  \/ AwaitedSQLiteSearch
  \/ OverlappingMockInsert
  \/ OverlappingMockSearch
  \/ OverlappingSQLiteInsert
  \/ OverlappingSQLiteSearch

SpecConcurrent == Init /\ [][NextConcurrent]_vars

\* The ids of the records handed to the last insert.
BatchIds == { lastOp.batch[n].id : n \in 1..Len(lastOp.batch) }

\* The search answers from the canned entries of an empty Mock store.
Canned == provider.impl = "mock" /\ vectors = <<>>

\* The result is one of the records: its id with that record's metadata.
IsOneOf(result, records) ==
  \E r \in records :
    /\ r.id = result.id
    /\ r.transactionType = result.metadata.transactionType
    /\ r.category = result.metadata.category
    /\ r.amount = result.metadata.amount

\* C16: whatever the order in which insert and search calls on one Mock or
\* SQLite provider overlap, no insert is lost (a call takes no stored record
\* away unless it is an insert writing that id, and an insert that succeeds
\* leaves each of its records stored as given) and no search observes a
\* partially applied record (each result is one stored record as a whole).
C16_Interleavings ==
  [][ lastOp'.op \in {"insert", "search"}
      => LET before == StoredRecords
             after == StoredRecords'
             written == BatchIds'
         IN /\ \A r \in before :
                 \/ r \in after
                 \/ lastOp'.op = "insert" /\ r.id \in written
            /\ (lastOp'.op = "insert" /\ lastOp'.ok)
                 => \A n \in LastWritten' : AsWritten(lastOp'.batch[n]) \in after
            /\ (lastOp'.op = "search" /\ ~Canned)
                 => \A i \in 1..Len(lastOp'.results) :
                      IsOneOf(lastOp'.results[i], after)
    ]_vars

\* A search made while an insert's promise was not yet awaited, over a store
\* of two records, returning a result.
C16_Witness ==
  /\ lastOp.op = "search"
  /\ lastOp.during = "insert"
  /\ Cardinality(StoredRecords) = 2
  /\ Len(lastOp.results) > 0

\* --------------------------------------- properties of SQLiteProvider.search

SQLiteSearched == lastOp.op = "search" /\ provider.impl = "sqlite"

\* The search names a category, one that is not the empty string.
CategoryNamed ==
  /\ Present(lastOp.options.filters)
  /\ Truthy(Value(lastOp.options.filters).category)

\* The rows of getAllTransactions whose category is c, in each order the
\* query may return them.
RowsOfCategory(c) ==
  LET OfCategory(row) == row.category = c
  IN { SelectSeq(rows, OfCategory) :
         rows \in getAllTransactions(transactions, transaction_embeddings) }

\* C21: SQLiteProvider.search(q, {topK, filters: {category: c}}) returns the
\* list that ranking against q only the stored records of category c gives:
\* each such row's stored vector is read, scored and ranked.
C21_CategoryPrefilterRanks ==
  (SQLiteSearched /\ CategoryNamed)
    => lastOp.results \in
         { SQLiteSearch(rows, lastOp.queryVector, lastOp.options) :
             rows \in RowsOfCategory(Value(Value(lastOp.options.filters).category)) }

\* The row's stored vector parses and has the length of the query vector.
Scorable(row) ==
  /\ Deserializable(row)
  /\ Len(Value(ParsedHebrewEmbedding(row))) = Len(lastOp.queryVector)

Components == {-1, 0, 1}

CosineInputs == {<<>>} \cup SeqsUpTo(Components, 2)

\* What a call of cosineSimilarity ends in: a number returned or an error
\* thrown.
ReturnedNumber(n) == [threw |-> FALSE, error |-> "", value |-> {n}]

ThrewError(error) == [threw |-> TRUE, error |-> error, value |-> Absent]

\* MockVectorProvider.cosineSimilarity(a, b)
MockCosineSimilarityOutcome(a, b) == ReturnedNumber(MockCosineSimilarity(a, b))

\* SQLiteProvider.cosineSimilarity(vectorA, vectorB)
SQLiteCosineSimilarityOutcome(vectorA, vectorB) ==
  IF Len(vectorA) # Len(vectorB)
  THEN ThrewError("Vectors must have the same length")
  ELSE ReturnedNumber(SQLiteCosineSimilarity(vectorA, vectorB))

\* Both implementations applied to one pair of vectors.
CosineSimilarityCall ==
  /\ Ready
  /\ \E a \in CosineInputs, b \in CosineInputs :
       lastOp' = [Idle EXCEPT !.op = "cosineSimilarity", !.queryVector = a,
                    !.vectorB = b,
                    !.outcomes = << MockCosineSimilarityOutcome(a, b),
                                    SQLiteCosineSimilarityOutcome(a, b) >>]
  /\ UNCHANGED <<now, env, provider, vectors, englishEmbeddings, transactions,
                 transaction_embeddings, calls>>

NextCosine ==
  \/ Continue
  \/ CosineSimilarityCall

SpecCosine == Init /\ [][NextCosine]_vars

\* Two outcomes are the same: both throw, or both return the same number
\* (NaN being the same as NaN).
SameOutcome(x, y) ==
  /\ x.threw = y.threw
  /\ ~x.threw =>
       \/ IsNaN(Value(x.value)) /\ IsNaN(Value(y.value))
       \/ SameNumber(Value(x.value), Value(y.value))

\* C23: MockVectorProvider's and SQLiteProvider's cosineSimilarity end the
\* same way on every pair of vectors; on vectors of unequal length both throw
\* a dimension mismatch and neither returns a number.
C23_SameCosine ==
  lastOp.op = "cosineSimilarity"
    => /\ SameOutcome(lastOp.outcomes[1], lastOp.outcomes[2])
       /\ Len(lastOp.queryVector) # Len(lastOp.vectorB)
            => lastOp.outcomes[1].threw /\ lastOp.outcomes[2].threw

\* ------------------------------------------- properties of remote answers

\* A search of a remote provider that the service answered and that returned.
RemoteSearchReturned ==
  /\ lastOp.op = "search"
  /\ provider.impl \in {"cloudflare-vectorize", "cloudflare"}
  /\ ~lastOp.pending
  /\ Present(lastOp.reply)
  /\ lastOp.ok

\* C24: a remote search returns the server's matches in the server's order,
\* each with its id, score and metadata unchanged; the binding-based provider
\* leaves out the matches whose score is below minScore (0.7 by default), and
\* nothing else is left out.
C24_MatchesOneToOne ==
  RemoteSearchReturned =>
    LET matches == Value(lastOp.reply).matches
        NotBelowMinScore(match) == GE(match.score, MinScoreOf(lastOp.options))
    IN lastOp.results =
         IF provider.impl = "cloudflare" THEN matches
         ELSE SelectSeq(matches, NotBelowMinScore)

\* The @mastra/vectorize provider returning three matches, one of score 0.
C24_Witness ==
  /\ RemoteSearchReturned
  /\ provider.impl = "cloudflare"
  /\ Len(lastOp.results) = 3

\* ------------------------------------------------ one MockVectorProvider

\* The batches a caller may hand to insert, the empty one among them.
AnyBatches == {<<>>} \cup Batches

InstanceInsert == Ready /\ MockInsertBody("", AnyBatches)

InstanceSearch == Ready /\ MockSearchBody("", Queries, Options)

\* A search made next after an insert on the same instance, the promise of
\* the insert not yet awaited: provider.insert(batch); provider.search(q).
InstanceSearchNext ==
  /\ Overlapping
  /\ lastOp.op = "insert"
  /\ MockSearchBody(lastOp.op, Queries, Options)

NextMockInstance ==
  \/ Continue
  \/ Create
  \/ InstanceInsert
  \/ InstanceSearch
  \/ InstanceSearchNext

SpecMockInstance == Init /\ [][NextMockInstance]_vars

MockSearched == lastOp.op = "search" /\ provider.impl = "mock"

\* The ids of the canned entries.
CannedIds == { mockResults(now)[i].id : i \in 1..Len(mockResults(now)) }

\* Every result is an entry of the instance's store, as stored.
ResultsAreStored ==
  \A i \in 1..Len(lastOp.results) :
    \E k \in 1..Len(vectors) :
      /\ vectors[k].id = lastOp.results[i].id
      /\ vectors[k].metadata = lastOp.results[i].metadata

\* C25 as stated: a search on an instance made after an insert on it returns
\* only records inserted into the instance.
C25_InsertedOnlyAfterInsert ==
  (MockSearched /\ lastOp.during = "insert") => ResultsAreStored

\* C25: MockVectorProvider.search returns canned mock_transaction_* entries
\* only while the instance's store is empty; once an insert has put at least
\* one record into the instance, every result of a search on it is a record
\* of its store.
C25_CannedOnlyWhileEmpty ==
  MockSearched =>
    IF vectors = <<>>
    THEN \A i \in 1..Len(lastOp.results) : lastOp.results[i].id \in CannedIds
    ELSE ResultsAreStored

\* A search right after an insert of a record, returning that record.
C25_Witness ==
  /\ MockSearched
  /\ lastOp.during = "insert"
  /\ vectors # <<>>
  /\ Len(lastOp.results) > 0

\* ------------------------------------------------ the REST-client factory

\* process.env.NODE_ENV and process.env.VECTOR_STORAGE_MODE as the process
\* may find them.
NodeEnvs == Maybe({"production", "PRODUCTION", "test", "development", "staging"})

StorageModes == Maybe({"", "mock", "MOCK", "cloudflare", "auto", "sqlite"})

\* String.prototype.toLowerCase on the values above.
toLowerCase(text) ==
  IF text = "PRODUCTION" THEN "production"
  ELSE IF text = "MOCK" THEN "mock"
  ELSE text

\* detectEnvironment()
detectEnvironment(nodeEnv) ==
  IF Present(nodeEnv) /\ toLowerCase(Value(nodeEnv)) = "production" THEN "production"
  ELSE IF Present(nodeEnv) /\ toLowerCase(Value(nodeEnv)) = "test" THEN "test"
  ELSE "development"

\* getEnvironmentConfig()
getEnvironmentConfig(nodeEnv, storageMode) ==
  LET environment == detectEnvironment(nodeEnv)
      mode == IF Truthy(storageMode) THEN toLowerCase(Value(storageMode)) ELSE ""
  IN [isDevelopment |-> environment = "development",
      isProduction |-> environment = "production",
      environment |-> environment,
      vectorStorageMode |-> IF mode \in {"cloudflare", "mock"} THEN mode ELSE "auto"]

\* The environments of the REST-client factory: ENV as getEnvironmentConfig
\* gives it, and the two credentials.
RestFactoryEnvs ==
  { [factory |-> "rest",
     vectorStorageMode |-> getEnvironmentConfig(n, m).vectorStorageMode,
     isProduction |-> getEnvironmentConfig(n, m).isProduction,
     environment |-> getEnvironmentConfig(n, m).environment,
     vectorDB |-> NotAnObject("undefined"),
     cloudflareAccountId |-> c.account, cloudflareApiToken |-> c.token] :
      n \in NodeEnvs, m \in StorageModes, c \in Credentials }

\* The process has read its environment; the clock runs.
InitRestFactory ==
  /\ now \in 1..MaxClock
  /\ env \in RestFactoryEnvs
  /\ provider = NoProvider
  /\ vectors = <<>>
  /\ englishEmbeddings = NoEnglishEmbeddings
  /\ transactions = <<>>
  /\ transaction_embeddings = <<>>
  /\ calls = 0
  /\ lastOp = Idle

NextRestFactory ==
  \/ Continue
  \/ Create

SpecRestFactory == InitRestFactory /\ [][NextRestFactory]_vars

CredentialMissing ==
  Missing(env.cloudflareAccountId) \/ Missing(env.cloudflareApiToken)

\* C26: in the REST-client factory, with a mode other than mock, a
\* MockVectorProvider comes back in the development environment only, and only
\* when a credential is missing; in production or in forced cloudflare mode a
\* missing credential makes createVectorStorageProvider throw.
C26_MockFallbackInDevelopmentOnly ==
  (env.factory = "rest" /\ lastOp.op = "create")
    => /\ (env.vectorStorageMode # "mock" /\ lastOp.ok /\ provider.impl = "mock")
            => env.environment = "development" /\ CredentialMissing
       /\ (/\ env.vectorStorageMode # "mock"
           /\ env.isProduction \/ env.vectorStorageMode = "cloudflare"
           /\ CredentialMissing)
            => ~lastOp.ok /\ provider = NoProvider

\* ------------------------------------------------------------ vectorSearchTool

ToolQueries == {<<1, 0>>, <<0, 1>>}

\* searchSimilarTransactions(searchQuery, options) of the provider-based
\* vector search tool, from the embedding on: a provider from the factory,
\* its search, and the value returned.  `earlier` keeps what the store of the
\* instance before this one held when the invocation began.
searchSimilarTransactions(queryVector, options, rows, t) ==
  LET made == createVectorStorageProvider(env)
      impl == made.provider.impl
      store == NewMockStore(vectors)
      searchResults == IF impl = "mock" THEN MockSearch(store, queryVector, options, t)
                       ELSE SQLiteSearch(rows, queryVector, options)
      asked == [Idle EXCEPT !.op = "vectorSearchTool", !.queryVector = queryVector,
                            !.options = options, !.earlier = vectors]
  IN IF made.threw \/ impl \notin {"mock", "sqlite"}
     THEN [provider |-> provider, vectors |-> vectors,
           lastOp |-> [asked EXCEPT !.ok = FALSE, !.error = "Vector search failed"]]
     ELSE [provider |-> made.provider,
           vectors |-> IF impl = "mock" THEN store ELSE <<>>,
           lastOp |-> [asked EXCEPT !.created = TRUE,
                         !.scan = IF impl = "mock" THEN MockScan(store, t)
                                  ELSE [i \in 1..Len(rows) |-> rows[i].id],
                         !.results = searchResults,
                         !.totalResults = Len(searchResults)]]

\* The tool's execute: searchSimilarTransactions(context.searchQuery,
\* {topK: context.topK, filters: context.filters}).
VectorSearchTool ==
  /\ Ready
  /\ \E queryVector \in ToolQueries, options \in Options, t \in now..MaxClock :
       \E rows \in SQLiteRows(transactions, transaction_embeddings, options) :
         LET done == searchSimilarTransactions(queryVector, options, rows, t)
         IN /\ now' = t
            /\ provider' = done.provider
            /\ vectors' = done.vectors
            /\ lastOp' = done.lastOp
  /\ UNCHANGED <<env, englishEmbeddings, transactions, transaction_embeddings, calls>>

NextTools ==
  \/ Continue
  \/ AnalyzeTransaction
  \/ VectorSearchTool

SpecTools == Init /\ [][NextTools]_vars

\* The records an instance's store holds, by id.
HeldIds(store) == { store[i].id : i \in 1..Len(store) }

\* C27: every invocation of the vector search tool builds a new provider
\* through createVectorStorageProvider; when that provider is the
\* MockVectorProvider its store is empty whatever an earlier invocation
\* inserted, and every result of its search is one of the canned entries,
\* none the record of an earlier invocation.
C27_NothingSharedBetweenInvocations ==
  /\ (lastOp.op = "vectorSearchTool" /\ lastOp.ok /\ provider.impl = "mock")
       => /\ lastOp.created
          /\ vectors = <<>>
          /\ \A i \in 1..Len(lastOp.results) :
               /\ lastOp.results[i].id \in CannedIds
               /\ lastOp.results[i].id \notin HeldIds(lastOp.earlier)
  /\ (lastOp.op = "analyzeTransaction" /\ lastOp.created /\ provider.impl = "mock")
       => /\ Len(vectors) = 1
          /\ {vectors[1].id} = lastOp.vectorId

\* A search invocation that follows an analyzer invocation which inserted a
\* record into its own MockVectorProvider, and returns canned entries.
C27_Witness ==
  /\ lastOp.op = "vectorSearchTool"
  /\ provider.impl = "mock"
  /\ lastOp.earlier # <<>>
  /\ Len(lastOp.results) > 0

\* ------------------------------------------------- SQLiteProvider.insert, batches

\* The longest batch a caller hands to one insert.
MaxRecords == 3

BatchRecords ==
  { [id |-> id, values |-> <<1, 0>>,
     metadata |-> [transactionType |-> "regular", category |-> "food",
                   amount |-> 1000, createdAt |-> 0]] : id \in Ids }

RecordBatches == SeqsUpTo(BatchRecords, MaxRecords)

InitBatches ==
  /\ now = 1
  /\ env = Env("sqlite", "auto", FALSE, NotAnObject("undefined"), Absent, Absent)
  /\ provider = NewSQLiteProvider
  /\ vectors = <<>>
  /\ englishEmbeddings = NoEnglishEmbeddings
  /\ transactions = <<>>
  /\ transaction_embeddings = <<>>
  /\ calls = 0
  /\ lastOp = Idle

\* await provider.insert(vectors) with a batch of several records
SQLiteInsertBatch == Ready /\ SQLiteInsertBody("", RecordBatches)

NextBatches ==
  \/ Continue
  \/ SQLiteInsertBatch

SpecBatches == InitBatches /\ [][NextBatches]_vars

\* The step stored exactly the first n records of the batch: one transactions
\* row each, followed in transaction_embeddings by its hebrew and its english
\* row, and nothing else changed in the database.
StoredFirst(batch, n) ==
  /\ Len(transactions') = Len(transactions) + n
  /\ SubSeq(transactions', 1, Len(transactions)) = transactions
  /\ \A i \in 1..n : transactions'[Len(transactions) + i].id = batch[i].id
  /\ Len(transaction_embeddings') = Len(transaction_embeddings) + 2 * n
  /\ SubSeq(transaction_embeddings', 1, Len(transaction_embeddings))
       = transaction_embeddings
  /\ \A i \in 1..n :
       LET hebrew == transaction_embeddings'[Len(transaction_embeddings) + 2 * i - 1]
           english == transaction_embeddings'[Len(transaction_embeddings) + 2 * i]
       IN /\ hebrew.transaction_id = batch[i].id
          /\ hebrew.embedding_type = "hebrew"
          /\ hebrew.embedding_vector = JSONstringify(batch[i].values)
          /\ english.transaction_id = batch[i].id
          /\ english.embedding_type = "english"

\* C28: SQLiteProvider.insert applies the batch record by record: when the
\* k-th record fails the call fails with an error and no mutationId, records
\* 1..k-1 stay stored with both embeddings and records k and later are not
\* stored; when no record fails the whole batch is stored.
C28_PrefixStoredOnFailure ==
  [][ (Ready /\ lastOp'.op = "insert" /\ provider.impl = "sqlite")
        => IF lastOp'.ok
           THEN StoredFirst(lastOp'.batch, Len(lastOp'.batch))
           ELSE /\ lastOp'.error # ""
                /\ lastOp'.mutationId = ""
                /\ \E k \in 1..Len(lastOp'.batch) :
                     /\ StoredFirst(lastOp'.batch, k - 1)
                     /\ \E i \in 1..Len(transactions') :
                          transactions'[i].id = lastOp'.batch[k].id ]_vars

\* A batch of three whose second record failed on the id of the first: the
\* first is stored, the third is not.
C28_Witness ==
  /\ lastOp.op = "insert"
  /\ ~lastOp.ok
  /\ Len(lastOp.batch) = 3
  /\ lastOp.batch[2].id = lastOp.batch[1].id
  /\ lastOp.batch[3].id # lastOp.batch[1].id
  /\ \E i \in 1..Len(transactions) : transactions[i].id = lastOp.batch[1].id
  /\ \A i \in 1..Len(transactions) : transactions[i].id # lastOp.batch[3].id

\* C29: the insert of the @mastra/vectorize provider sends createIndex before
\* every upsert; a rejected createIndex never fails the insert, the upsert is
\* sent all the same; a rejected upsert fails the insert, which then returns
\* no mutationId, and an accepted one makes it return one.
C29_CreateIndexBeforeUpsert ==
  (lastOp.op = "insert" /\ provider.impl = "cloudflare")
    => /\ Len(lastOp.sent) \in {1, 2}
       /\ lastOp.sent[1].kind = "createIndex"
       /\ \A i \in 1..Len(lastOp.sent) : lastOp.sent[i].kind = "upsert" => i = 2
       /\ Present(lastOp.indexCreated)
            => /\ Len(lastOp.sent) = 2
               /\ lastOp.sent[2].kind = "upsert"
               /\ lastOp.sent[2].vectors = lastOp.batch
       /\ ~lastOp.pending
            => /\ Present(lastOp.indexCreated)
               /\ Present(lastOp.reply)
               /\ lastOp.ok <=> Value(lastOp.reply).kind # "reject"
               /\ lastOp.ok <=> lastOp.mutationId # ""
               /\ ~lastOp.ok => lastOp.error # ""

\* An insert whose createIndex was rejected and whose upsert went through.
C29_Witness ==
  /\ lastOp.op = "insert"
  /\ provider.impl = "cloudflare"
  /\ ~lastOp.pending
  /\ lastOp.indexCreated = {FALSE}
  /\ lastOp.ok
  /\ lastOp.mutationId # ""

\* The vector search tool returned a value.
ToolReturned ==
  /\ lastOp.op \in {"searchSimilar", "vectorSearchTool"}
  /\ ~lastOp.pending
  /\ lastOp.ok

\* C30: in every value the vector search tool returns, on the path that
\* queries the index and on the path that answers with canned entries,
\* totalResults is the number of entries of results, and results holds at
\* most topK entries.
C30_TotalResultsCountsResults ==
  ToolReturned
    => /\ lastOp.totalResults = Len(lastOp.results)
       /\ Len(lastOp.results) <= TopKOf(lastOp.options)

====
